---- MODULE Spec2Model ----
(***************************************************************************)
(* Guarded SQL executor (src/src/tools/sql_executor.py, run_sql) and the   *)
(* what-if funnel engine (src/src/services/funnel_service.py,              *)
(* FunnelService.calculate_whatif) of rwd-ie-optimizer.                    *)
(*                                                                         *)
(* Text (SQL, error messages, concepts) is a sequence of one-character     *)
(* strings, so that upper(), lower() and the substring test `in` are       *)
(* computed character by character as Python computes them.               *)
(* Percentages are exact fractions [num, den].                             *)
(***************************************************************************)
EXTENDS Integers, Sequences, FiniteSets, TLC

\* ------------------------------------------------------------------ bounds
\* longest client SQL text, in fragments of SqlFragments
MaxFrags == 2
\* largest number of rows a client query returns (above PreviewLimit)
MaxRows == 11
\* largest COUNT the store answers to a count query
MaxCount == 1
\* largest number of criteria in a criteria document, both lists together
MaxCrit == 2
\* the rows of the reference tables and claims diagnoses of a database
MaxRef == 3

\* the number of save_artifact calls of a run
MaxSaves == 3

\* how far the wall clock runs, in half seconds
MaxClock == 3

\* max_turns of the AgentRunner
MaxTurns == 2

\* the most tool calls one model message carries
MaxCalls == 2

\* ------------------------------------------------------- program constants
\* results[:10] in preview mode
PreviewLimit == 10
\* len(results) > 1000 warning in full mode
LargeResult == 1000
\* base population when the base query fails
DefaultBase == 500
\* LIMIT 10 of the claims query of search_concepts
SupplementalLimit == 10

\* -------------------------------------------------------------------- text
LowerChars ==
    <<"a","b","c","d","e","f","g","h","i","j","k","l","m",
      "n","o","p","q","r","s","t","u","v","w","x","y","z">>

UpperChars ==
    <<"A","B","C","D","E","F","G","H","I","J","K","L","M",
      "N","O","P","Q","R","S","T","U","V","W","X","Y","Z">>

DigitChars == <<"0","1","2","3","4","5","6","7","8","9">>

\* lower-case letter -> upper-case letter
ToUpper ==
    [c \in {LowerChars[i] : i \in 1..26} |->
        UpperChars[CHOOSE i \in 1..26 : LowerChars[i] = c]]

\* upper-case letter -> lower-case letter
ToLower ==
    [c \in {UpperChars[i] : i \in 1..26} |->
        LowerChars[CHOOSE i \in 1..26 : UpperChars[i] = c]]

\* str.upper() on one character
UpperChar(c) == IF c \in DOMAIN ToUpper THEN ToUpper[c] ELSE c

\* str.lower() on one character
LowerChar(c) == IF c \in DOMAIN ToLower THEN ToLower[c] ELSE c

\* str.upper()
Upper(s) == [i \in 1..Len(s) |-> UpperChar(s[i])]

\* str.lower()
Lower(s) == [i \in 1..Len(s) |-> LowerChar(s[i])]

\* Python's `sub in s` on strings
Contains(sub, s) ==
    \E i \in 0..(Len(s) - Len(sub)) : \A j \in 1..Len(sub) : s[i + j] = sub[j]

\* str(n) for an integer n >= 0, as an f-string formats it
RECURSIVE IntToStr(_)
IntToStr(n) ==
    IF n < 10 THEN <<DigitChars[n + 1]>>
    ELSE IntToStr(n \div 10) \o <<DigitChars[(n % 10) + 1]>>

IsDigit(c) == \E i \in 1..10 : DigitChars[i] = c

DigitValue(c) == (CHOOSE i \in 1..10 : DigitChars[i] = c) - 1

\* the value of a decimal literal, as the query engine reads it
RECURSIVE StrToInt(_)
StrToInt(s) ==
    IF Len(s) = 0 THEN 0
    ELSE StrToInt(SubSeq(s, 1, Len(s) - 1)) * 10 + DigitValue(s[Len(s)])

\* ------------------------------------------------------- run_sql: guard
\* destructive_keywords, in list order
destructive_keywords ==
    <<<<"D","R","O","P">>,
      <<"D","E","L","E","T","E">>,
      <<"T","R","U","N","C","A","T","E">>,
      <<"U","P","D","A","T","E">>,
      <<"I","N","S","E","R","T">>,
      <<"A","L","T","E","R">>>>

\* "Destructive operation '"
DestructivePrefix ==
    <<"D","e","s","t","r","u","c","t","i","v","e"," ","o","p","e","r","a","t","i","o","n"," ",
      "'">>

\* "' not allowed"
DestructiveSuffix ==
    <<"'"," ","n","o","t"," ","a","l","l","o","w","e","d">>

\* "Invalid mode '"
InvalidModePrefix ==
    <<"I","n","v","a","l","i","d"," ","m","o","d","e"," ","'">>

\* "'. Use 'count', 'preview', or 'full'"
InvalidModeSuffix ==
    <<"'","."," ","U","s","e"," ","'","c","o","u","n","t","'",","," ","'","p","r","e","v","i",
      "e","w","'",","," ","o","r"," ","'","f","u","l","l","'">>

\* 'Showing 10 of '
ShowingPrefix ==
    <<"S","h","o","w","i","n","g"," ","1","0"," ","o","f"," ">>

\* ' rows'
RowsSuffix ==
    <<" ","r","o","w","s">>

\* 'Large result set: '
LargePrefix ==
    <<"L","a","r","g","e"," ","r","e","s","u","l","t"," ","s","e","t",":"," ">>

\* ' rows returned'
RowsReturnedSuffix ==
    <<" ","r","o","w","s"," ","r","e","t","u","r","n","e","d">>

\* ------------------------------------------------------------ mode values
\* 'count'
ModeCount ==
    <<"c","o","u","n","t">>

\* 'preview'
ModePreview ==
    <<"p","r","e","v","i","e","w">>

\* 'full'
ModeFull ==
    <<"f","u","l","l">>

\* 'COUNT'
ModeUpperCount ==
    <<"C","O","U","N","T">>

\* 'all'
ModeAll ==
    <<"a","l","l">>

\* --------------------------------------------- messages of the query engine
\* 'near "FORM": syntax error'
MsgSyntax ==
    <<"n","e","a","r"," ","\"","F","O","R","M","\"",":"," ","s","y","n","t","a","x"," ","e","r",
      "r","o","r">>

\* 'no such table: nonexistent_table'
MsgNoTable ==
    <<"n","o"," ","s","u","c","h"," ","t","a","b","l","e",":"," ","n","o","n","e","x","i","s",
      "t","e","n","t","_","t","a","b","l","e">>

\* 'no such column: agee'
MsgNoColumn ==
    <<"n","o"," ","s","u","c","h"," ","c","o","l","u","m","n",":"," ","a","g","e","e">>

\* 'database is locked'
MsgLocked ==
    <<"d","a","t","a","b","a","s","e"," ","i","s"," ","l","o","c","k","e","d">>

\* 'unrecognized token: "\'No Such Table"'
MsgTokenNoSuchTable ==
    <<"u","n","r","e","c","o","g","n","i","z","e","d"," ","t","o","k","e","n",":"," ","\"","'",
      "N","o"," ","S","u","c","h"," ","T","a","b","l","e","\"">>

\* 'near "no such column": syntax error'
MsgSyntaxNearNoColumn ==
    <<"n","e","a","r"," ","\"","n","o"," ","s","u","c","h"," ","c","o","l","u","m","n","\"",":",
      " ","s","y","n","t","a","x"," ","e","r","r","o","r">>

\* 'unable to open database file'
MsgCannotOpen ==
    <<"u","n","a","b","l","e"," ","t","o"," ","o","p","e","n"," ","d","a","t","a","b","a","s",
      "e"," ","f","i","l","e">>

\* 'file is not a database'
MsgNotADatabase ==
    <<"f","i","l","e"," ","i","s"," ","n","o","t"," ","a"," ","d","a","t","a","b","a","s","e">>

\* 'You can only execute one statement at a time.'
MsgOneStatement ==
    <<"Y","o","u"," ","c","a","n"," ","o","n","l","y"," ","e","x","e","c","u","t","e"," ","o",
      "n","e"," ","s","t","a","t","e","m","e","n","t"," ","a","t"," ","a"," ","t","i","m","e",
      ".">>

\* 'the query contains a null character'
MsgNullCharacter ==
    <<"t","h","e"," ","q","u","e","r","y"," ","c","o","n","t","a","i","n","s"," ","a"," ","n",
      "u","l","l"," ","c","h","a","r","a","c","t","e","r">>

\* "Database not found at data/rwd_claims.db. Run 'python scripts/create_database.py' first."
MsgDatabaseNotFound ==
    <<"D","a","t","a","b","a","s","e"," ","n","o","t"," ","f","o","u","n","d"," ","a","t"," ",
      "d","a","t","a","/","r","w","d","_","c","l","a","i","m","s",".","d","b","."," ","R","u",
      "n"," ","'","p","y","t","h","o","n"," ","s","c","r","i","p","t","s","/","c","r","e","a",
      "t","e","_","d","a","t","a","b","a","s","e",".","p","y","'"," ","f","i","r","s","t",".">>

\* 'syntax error'
NeedleSyntaxError ==
    <<"s","y","n","t","a","x"," ","e","r","r","o","r">>

\* 'no such table'
NeedleNoSuchTable ==
    <<"n","o"," ","s","u","c","h"," ","t","a","b","l","e">>

\* 'no such column'
NeedleNoSuchColumn ==
    <<"n","o"," ","s","u","c","h"," ","c","o","l","u","m","n">>

\* ------------------------------------------------- SQL texts of the clients
\* 'SELECT * FROM patients'
Frag1 ==
    <<"S","E","L","E","C","T"," ","*"," ","F","R","O","M"," ","p","a","t","i","e","n","t","s">>

\* " WHERE name = 'Update'"
Frag2 ==
    <<" ","W","H","E","R","E"," ","n","a","m","e"," ","="," ","'","U","p","d","a","t","e","'">>

\* 'select inserted_at from t'
Frag3 ==
    <<"s","e","l","e","c","t"," ","i","n","s","e","r","t","e","d","_","a","t"," ","f","r","o",
      "m"," ","t">>

\* 'DROP TABLE patients'
Frag4 ==
    <<"D","R","O","P"," ","T","A","B","L","E"," ","p","a","t","i","e","n","t","s">>

\* "SELECT 'del"
Frag5 ==
    <<"S","E","L","E","C","T"," ","'","d","e","l">>

\* "ete' AS alt"
Frag6 ==
    <<"e","t","e","'"," ","A","S"," ","a","l","t">>

\* ' LIMIT 5'
Frag7 ==
    <<" ","L","I","M","I","T"," ","5">>

SqlFragments == {Frag1, Frag2, Frag3, Frag4, Frag5, Frag6, Frag7}

\* ------------------------------------------------ SQL texts of the funnel
\* 'SELECT COUNT(*) as cnt FROM patients'
BasePopulationSql ==
    <<"S","E","L","E","C","T"," ","C","O","U","N","T","(","*",")"," ","a","s"," ","c","n","t",
      " ","F","R","O","M"," ","p","a","t","i","e","n","t","s">>

\* 'SELECT COUNT(*) as cnt FROM patients WHERE age BETWEEN 18 AND 75'
AgeSql ==
    <<"S","E","L","E","C","T"," ","C","O","U","N","T","(","*",")"," ","a","s"," ","c","n","t",
      " ","F","R","O","M"," ","p","a","t","i","e","n","t","s"," ","W","H","E","R","E"," ","a",
      "g","e"," ","B","E","T","W","E","E","N"," ","1","8"," ","A","N","D"," ","7","5">>

\* 16 spaces: the indentation inside the triple-quoted templates
Indent16 ==
    <<" "," "," "," "," "," "," "," "," "," "," "," "," "," "," "," ">>

\* 12 spaces: the indentation of the closing triple quote
Indent12 ==
    <<" "," "," "," "," "," "," "," "," "," "," "," ">>

Newline == <<"\n">>

\* 'SELECT COUNT(DISTINCT patient_id) as cnt FROM claims'
SelectDistinctClaims ==
    <<"S","E","L","E","C","T"," ","C","O","U","N","T","(","D","I","S","T","I","N","C","T"," ",
      "p","a","t","i","e","n","t","_","i","d",")"," ","a","s"," ","c","n","t"," ","F","R","O",
      "M"," ","c","l","a","i","m","s">>

\* "WHERE primary_diagnosis_code LIKE '"
WherePrimaryLike ==
    <<"W","H","E","R","E"," ","p","r","i","m","a","r","y","_","d","i","a","g","n","o","s","i",
      "s","_","c","o","d","e"," ","L","I","K","E"," ","'">>

\* "OR secondary_diagnosis_code LIKE '"
OrSecondaryLike ==
    <<"O","R"," ","s","e","c","o","n","d","a","r","y","_","d","i","a","g","n","o","s","i","s",
      "_","c","o","d","e"," ","L","I","K","E"," ","'">>

\* "OR tertiary_diagnosis_code LIKE '"
OrTertiaryLike ==
    <<"O","R"," ","t","e","r","t","i","a","r","y","_","d","i","a","g","n","o","s","i","s","_",
      "c","o","d","e"," ","L","I","K","E"," ","'">>

\* "WHERE drug_name LIKE '"
WhereDrugLike ==
    <<"W","H","E","R","E"," ","d","r","u","g","_","n","a","m","e"," ","L","I","K","E"," ","'">>

\* "'"
Quote ==
    <<"'">>

\* 'E11%'
PatternE11 ==
    <<"E","1","1","%">>

\* 'I50%'
PatternI50 ==
    <<"I","5","0","%">>

\* 'C%'
PatternC ==
    <<"C","%">>

\* '%Metformin%'
PatternMetformin ==
    <<"%","M","e","t","f","o","r","m","i","n","%">>

\* 'SELECT '
SelectSpace ==
    <<"S","E","L","E","C","T"," ">>

\* ' as cnt'
AsCnt ==
    <<" ","a","s"," ","c","n","t">>

\* the three-column diagnosis count over claims, as the triple-quoted templates spell it
DiagnosisCountSql(pattern) ==
    Newline \o Indent16 \o SelectDistinctClaims
    \o Newline \o Indent16 \o WherePrimaryLike \o pattern \o Quote
    \o Newline \o Indent16 \o OrSecondaryLike \o pattern \o Quote
    \o Newline \o Indent16 \o OrTertiaryLike \o pattern \o Quote
    \o Newline \o Indent12

DiagnosisSql == DiagnosisCountSql(PatternE11)

DrugSql ==
    Newline \o Indent16 \o SelectDistinctClaims
    \o Newline \o Indent16 \o WhereDrugLike \o PatternMetformin \o Quote
    \o Newline \o Indent12

HeartFailureSql == DiagnosisCountSql(PatternI50)

CancerSql == DiagnosisCountSql(PatternC)

\* f"SELECT {base_count} as cnt"
DefaultInclusionSql(base) == SelectSpace \o IntToStr(base) \o AsCnt

\* "SELECT 0 as cnt"
DefaultExclusionSql == SelectSpace \o <<"0">> \o AsCnt

\* ------------------------------------------- texts of the funnel criteria
\* 'demographic'
DomainDemographic ==
    <<"d","e","m","o","g","r","a","p","h","i","c">>

\* 'diagnosis'
DomainDiagnosis ==
    <<"d","i","a","g","n","o","s","i","s">>

\* 'drug'
DomainDrug ==
    <<"d","r","u","g">>

\* 'age'
NeedleAge ==
    <<"a","g","e">>

\* 'diabetes'
NeedleDiabetes ==
    <<"d","i","a","b","e","t","e","s">>

\* 'type 2'
NeedleType2 ==
    <<"t","y","p","e"," ","2">>

\* 'metformin'
NeedleMetformin ==
    <<"m","e","t","f","o","r","m","i","n">>

\* 'heart failure'
NeedleHeartFailure ==
    <<"h","e","a","r","t"," ","f","a","i","l","u","r","e">>

\* 'heart'
NeedleHeart ==
    <<"h","e","a","r","t">>

\* 'cancer'
NeedleCancer ==
    <<"c","a","n","c","e","r">>

\* 'Unknown'
NameUnknown ==
    <<"U","n","k","n","o","w","n">>

\* 'Exclude: '
ExcludePrefix ==
    <<"E","x","c","l","u","d","e",":"," ">>

\* 'lab'
TextLab ==
    <<"l","a","b">>

\* 'Drug'
TextDrugCapital ==
    <<"D","r","u","g">>

\* 'age'
TextAge ==
    <<"a","g","e">>

\* 'Age 18-75'
TextAgeRange ==
    <<"A","g","e"," ","1","8","-","7","5">>

\* 'Metformin'
TextMetformin ==
    <<"M","e","t","f","o","r","m","i","n">>

\* 'unknown_marker'
TextUnknownMarker ==
    <<"u","n","k","n","o","w","n","_","m","a","r","k","e","r">>

\* 'Heart Failure'
TextHeartFailure ==
    <<"H","e","a","r","t"," ","F","a","i","l","u","r","e">>

\* 'pregnancy'
TextPregnancy ==
    <<"p","r","e","g","n","a","n","c","y">>

\* statements that write and hold no keyword of the denylist
\* 'CREATE TABLE notes (x)'
CreateTableSql ==
    <<"C","R","E","A","T","E"," ","T","A","B","L","E"," ","n","o","t","e","s"," ","(","x",")">>

\* 'REPLACE INTO patients (patient_id) VALUES (0)'
ReplaceSql ==
    <<"R","E","P","L","A","C","E"," ","I","N","T","O"," ","p","a","t","i","e","n","t","s"," ",
      "(","p","a","t","i","e","n","t","_","i","d",")"," ","V","A","L","U","E","S"," ","(","0",
      ")">>

\* 'table notes already exists'
MsgTableExists ==
    <<"t","a","b","l","e"," ","n","o","t","e","s"," ","a","l","r","e","a","d","y"," ","e","x",
      "i","s","t","s">>

\* dx_sql of calculate_funnel: the primary diagnosis code only
FunnelDxSql ==
    <<"S","E","L","E","C","T"," ","C","O","U","N","T","(","D","I","S","T","I","N","C","T"," ",
      "p","a","t","i","e","n","t","_","i","d",")"," ","a","s"," ","c","n","t"," ","F","R","O",
      "M"," ","c","l","a","i","m","s","\n"," "," "," "," "," "," "," "," "," "," "," "," "," ",
      " "," "," "," "," "," "," "," "," "," ","W","H","E","R","E"," ","p","r","i","m","a","r",
      "y","_","d","i","a","g","n","o","s","i","s","_","c","o","d","e"," ","L","I","K","E"," ",
      "'","E","1","1","%","'">>

\* 'Type 2 Diabetes'
TextType2Diabetes ==
    <<"T","y","p","e"," ","2"," ","D","i","a","b","e","t","e","s">>

\* "'NoneType' object has no attribute 'lower'"
MsgNoneLower ==
    <<"'","N","o","n","e","T","y","p","e","'"," ","o","b","j","e","c","t"," ","h","a","s"," ",
      "n","o"," ","a","t","t","r","i","b","u","t","e"," ","'","l","o","w","e","r","'">>

\* 'division by zero'
MsgDivisionByZero ==
    <<"d","i","v","i","s","i","o","n"," ","b","y"," ","z","e","r","o">>

\* ------------------------------------------------------------------- state
VARIABLES
    store,              \* the SQLite file: whether it exists, rows of patients
    rpc,                \* run_sql: position of the call in progress
    sql,                \* run_sql: argument sql
    mode,               \* run_sql: argument mode
    conns,              \* number of open database connections
    results,            \* run_sql: cursor.fetchall()
    columns,            \* run_sql: names of cursor.description
    elapsed,            \* run_sql: elapsed time, in microseconds
    exc,                \* run_sql: the exception raised inside the try, if any
    result,             \* run_sql: the value returned (or the exception raised)
    trace,              \* what this call did to the store: connect, execute, close
    wpc,                \* calculate_whatif: position
    enabled_inclusion,  \* calculate_whatif: argument
    enabled_exclusion,  \* calculate_whatif: argument
    criteria_dsl,       \* calculate_whatif: argument
    idx,                \* calculate_whatif: position of the for loop in its list
    base_result,        \* calculate_whatif: local, what is read of the base result
    query_result,       \* calculate_whatif: local `result`, what the loops read of it
    base_count,         \* calculate_whatif: local
    current_count,      \* calculate_whatif: local
    steps,              \* calculate_whatif: local
    queries,            \* the number of run_sql calls this run has made
    whatif_result,      \* calculate_whatif: the value returned
    fpc,                \* calculate_funnel: position
    funnel_dsl,         \* calculate_funnel: argument criteria_dsl
    exec_result,        \* calculate_funnel: argument exec_result
    funnel_base_count,  \* calculate_funnel: local base_count
    funnel_steps,       \* calculate_funnel: local
    funnel_result,      \* calculate_funnel: the value returned, or the exception raised
    spc,                \* search_concepts: position
    term,               \* search_concepts: argument
    code_system,        \* search_concepts: argument
    matches,            \* search_concepts: local `results`
    fetched,            \* search_concepts: what each cursor.fetchall() returned
    search_result,      \* search_concepts: the value returned, or the exception raised
    clock,              \* the wall clock datetime.now() reads, in half seconds
    files,              \* the artifacts directory: file name -> what the file holds
    saves,              \* what each save_artifact call was given and what it returned
    save_result,        \* save_artifact: the value returned
    load_id,            \* load_artifact: argument artifact_id
    load_result,        \* load_artifact: the value returned
    apc,                \* AgentRunner.run: position
    turn,               \* AgentRunner.run: requests made so far (the for loop)
    conversation,       \* AgentRunner.run: local
    response_messages,  \* AgentRunner.run: local
    current_agent,      \* AgentRunner.run: local
    tool_specs,         \* AgentRunner.run: local
    tool_map,           \* AgentRunner.run: local
    request_kwargs,     \* AgentRunner.run: the request last sent to the model
    message,            \* AgentRunner.run: the model's message of this turn
    call_idx,           \* AgentRunner.run: position of `for call in tool_calls`
    run_result,         \* AgentRunner.run: the value returned, or the exception raised
    max_turns           \* AgentRunner: self.max_turns

execVars == <<rpc, sql, mode, conns, results, columns, elapsed, exc, result, trace>>

whatifVars ==
    <<wpc, enabled_inclusion, enabled_exclusion, criteria_dsl, idx,
      base_result, query_result, base_count, current_count, steps, queries,
      whatif_result>>

funnelVars ==
    <<fpc, funnel_dsl, exec_result, funnel_base_count, funnel_steps, funnel_result>>

searchVars == <<spc, term, code_system, matches, fetched, search_result>>

\* the frame of run_sql: execVars without the count of open connections
runSqlFrame == <<rpc, sql, mode, results, columns, elapsed, exc, result, trace>>

artifactVars == <<clock, files, saves, save_result, load_id, load_result>>

agentVars ==
    <<apc, turn, conversation, response_messages, current_agent, tool_specs,
      tool_map, request_kwargs, message, call_idx, run_result, max_turns>>

vars == <<store, execVars, whatifVars, funnelVars, searchVars, artifactVars, agentVars>>

\* ------------------------------------------------------------ the data store
\* the database file: absent, or present with some number of patients rows;
\* created: the tables it holds besides those it was built with; refs: the
\* rows of the reference tables and the diagnoses of the claims
Stores ==
    {[exists |-> FALSE, patients |-> 0, created |-> {}, refs |-> {}]}
    \cup {[exists |-> TRUE, patients |-> n, created |-> {}, refs |-> {}] : n \in 0..MaxCount}

\* ----------------------------------------------------------- exceptions
NoExc == [cls |-> "None", msg |-> <<>>]

Exc(c, m) == [cls |-> c, msg |-> m]

\* the base class of an exception class (sqlite3 and builtins)
SuperClass(c) ==
    CASE c = "OperationalError" -> "DatabaseError"
      [] c = "ProgrammingError" -> "DatabaseError"
      [] c = "DatabaseError" -> "Error"
      [] c = "Error" -> "Exception"
      [] c = "FileNotFoundError" -> "OSError"
      [] c = "OSError" -> "Exception"
      [] c = "ValueError" -> "Exception"
      [] c = "ZeroDivisionError" -> "ArithmeticError"
      [] c = "ArithmeticError" -> "Exception"
      [] c = "AttributeError" -> "Exception"
      [] c = "TypeError" -> "Exception"
      [] c = "RuntimeError" -> "Exception"
      [] OTHER -> "BaseException"

\* whether an `except base` clause catches an exception of class c
RECURSIVE IsInstance(_, _)
IsInstance(c, base) ==
    \/ c = base
    \/ c # "BaseException" /\ IsInstance(SuperClass(c), base)

\* what cursor.execute / fetchall can raise
ExecuteErrors ==
    {Exc("OperationalError", m) :
        m \in {MsgSyntax, MsgNoTable, MsgNoColumn, MsgLocked,
               MsgTokenNoSuchTable, MsgSyntaxNearNoColumn}}
    \cup {Exc("DatabaseError", MsgNotADatabase),
          Exc("ProgrammingError", MsgOneStatement),
          Exc("ValueError", MsgNullCharacter)}

\* -------------------------------------------------- the query engine
RowsOutcome(cols, rows) == [tag |-> "rows", columns |-> cols, rows |-> rows]

ErrorOutcome(e) == [tag |-> "error", exc |-> e, columns |-> <<>>, rows |-> <<>>]

\* a one-row, one-column result named cnt, one for each value in S
CountOutcomes(S) == {RowsOutcome(<<"cnt">>, <<<<n>>>>) : n \in S}

\* "SELECT <digits> as cnt"
IsLiteralSelect(q) ==
    /\ Len(q) > Len(SelectSpace) + Len(AsCnt)
    /\ SubSeq(q, 1, Len(SelectSpace)) = SelectSpace
    /\ SubSeq(q, Len(q) - Len(AsCnt) + 1, Len(q)) = AsCnt
    /\ \A i \in (Len(SelectSpace) + 1)..(Len(q) - Len(AsCnt)) : IsDigit(q[i])

LiteralValue(q) == StrToInt(SubSeq(q, Len(SelectSpace) + 1, Len(q) - Len(AsCnt)))

\* result sets of a client query: n rows of two columns, ascending or descending
GenericColumns == {<<"patient_id", "age">>, <<"x", "x">>}

GenericRows(n, descending) ==
    [i \in 1..n |->
        IF descending THEN <<n + 1 - i, 20 + (n + 1 - i)>> ELSE <<i, 20 + i>>]

GenericResults ==
    {RowsOutcome(<<>>, <<>>)}
    \cup {RowsOutcome(cols, GenericRows(n, dsc)) :
            cols \in GenericColumns, n \in 0..MaxRows, dsc \in BOOLEAN}

\* 'SELECT * FROM claims'
ClaimsScanSql ==
    <<"S","E","L","E","C","T"," ","*"," ","F","R","O","M"," ","c","l","a","i","m","s">>

\* result sets of a scan of the claims: as many rows as the preview and the
\* large-result thresholds, and one more
LargeResults ==
    {RowsOutcome(<<"patient_id", "age">>, GenericRows(n, FALSE)) :
        n \in {PreviewLimit, PreviewLimit + 1, LargeResult, LargeResult + 1}}

\* the result sets the engine can answer query q with, on store st
ExecuteResults(q, st) ==
    IF q = ClaimsScanSql THEN LargeResults ELSE
    IF q = CreateTableSql
        THEN IF "notes" \in st.created THEN {} ELSE {RowsOutcome(<<>>, <<>>)}
    ELSE IF q = ReplaceSql THEN {RowsOutcome(<<>>, <<>>)}
    ELSE IF q = BasePopulationSql THEN CountOutcomes({st.patients})
    ELSE IF q = AgeSql THEN CountOutcomes(0..st.patients)
    ELSE IF q \in {DiagnosisSql, DrugSql, HeartFailureSql, CancerSql, FunnelDxSql}
         THEN CountOutcomes(0..MaxCount)
    ELSE IF IsLiteralSelect(q) THEN CountOutcomes({LiteralValue(q)})
    ELSE GenericResults

\* the errors of statement q itself on store st
StatementErrors(q, st) ==
    IF q = CreateTableSql /\ "notes" \in st.created
    THEN {Exc("OperationalError", MsgTableExists)}
    ELSE {}

\* every outcome of cursor.execute(q); cursor.fetchall()
Outcomes(q, st) ==
    ExecuteResults(q, st)
    \cup {ErrorOutcome(e) : e \in ExecuteErrors \cup StatementErrors(q, st)}

\* the store after statement q has executed on st and its connection is
\* closed. The connection is never committed: a CREATE TABLE runs outside any
\* transaction and stays; a REPLACE opens a transaction that close() discards
Effect(q, st) ==
    IF q = CreateTableSql THEN [st EXCEPT !.created = @ \cup {"notes"}] ELSE st

\* time.time() differences, in microseconds
ElapsedMicros == {4, 1236}

\* round(elapsed_ms, 2), in hundredths of a millisecond
Round2(us) ==
    LET q == us \div 10
        r == us % 10
    IN  IF r > 5 \/ (r = 5 /\ q % 2 = 1) THEN q + 1 ELSE q

\* ------------------------------------------------------- run_sql: results
NoResult == [tag |-> "none"]

Failure(msg, type) == [tag |-> "result", ok |-> FALSE, error |-> msg, error_type |-> type]

Success(n, timing, rows, warns) ==
    [tag |-> "result", ok |-> TRUE,
     execution_summary |-> [n |-> n, timing_ms |-> timing],
     preview_rows |-> rows, warnings |-> warns]

\* the keyword loop without the upper-casing
IsDestructiveCaseSensitive(s) ==
    \E k \in 1..Len(destructive_keywords) : Contains(destructive_keywords[k], s)

\* the keyword loop: whether some destructive keyword is in sql.upper()
IsDestructive(s) ==
    \E k \in 1..Len(destructive_keywords) : Contains(destructive_keywords[k], Upper(s))

\* the first keyword of the list found in sql.upper()
FirstKeyword(s) ==
    destructive_keywords[
        CHOOSE k \in 1..Len(destructive_keywords) :
            /\ Contains(destructive_keywords[k], Upper(s))
            /\ \A j \in 1..(k - 1) : ~Contains(destructive_keywords[j], Upper(s))]

\* row_dict: column name -> value; a later column of the same name overwrites
RowDict(cols, row) ==
    [c \in {cols[i] : i \in 1..Len(cols)} |->
        row[CHOOSE i \in 1..Len(cols) :
                cols[i] = c /\ \A j \in 1..Len(cols) : cols[j] = c => j <= i]]

\* results[-10:] converted to dicts
PreviewRowsFromEnd(res, cols) ==
    LET k == IF Len(res) < PreviewLimit THEN Len(res) ELSE PreviewLimit
    IN  [i \in 1..k |-> RowDict(cols, res[Len(res) - k + i])]

\* results[:10] converted to dicts
PreviewRows(res, cols) ==
    [i \in 1..(IF Len(res) < PreviewLimit THEN Len(res) ELSE PreviewLimit) |->
        RowDict(cols, res[i])]

\* all results converted to dicts
FullRows(res, cols) == [i \in 1..Len(res) |-> RowDict(cols, res[i])]

\* the mode switch with the warnings given from the thresholds on
ResponseWarnAtThreshold(m, res, cols, us) ==
    IF m = ModeCount THEN Success(Len(res), Round2(us), <<>>, <<>>)
    ELSE IF m = ModePreview THEN
        Success(Len(res), Round2(us), PreviewRows(res, cols),
                IF Len(res) >= PreviewLimit
                THEN <<ShowingPrefix \o IntToStr(Len(res)) \o RowsSuffix>>
                ELSE <<>>)
    ELSE IF m = ModeFull THEN
        Success(Len(res), Round2(us), FullRows(res, cols),
                IF Len(res) >= LargeResult
                THEN <<LargePrefix \o IntToStr(Len(res)) \o RowsReturnedSuffix>>
                ELSE <<>>)
    ELSE Failure(InvalidModePrefix \o m \o InvalidModeSuffix, "invalid_mode")

\* the mode switch inside the with block
Response(m, res, cols, us) ==
    IF m = ModeCount THEN Success(Len(res), Round2(us), <<>>, <<>>)
    ELSE IF m = ModePreview THEN
        Success(Len(res), Round2(us), PreviewRows(res, cols),
                IF Len(res) > PreviewLimit
                THEN <<ShowingPrefix \o IntToStr(Len(res)) \o RowsSuffix>>
                ELSE <<>>)
    ELSE IF m = ModeFull THEN
        Success(Len(res), Round2(us), FullRows(res, cols),
                IF Len(res) > LargeResult
                THEN <<LargePrefix \o IntToStr(Len(res)) \o RowsReturnedSuffix>>
                ELSE <<>>)
    ELSE Failure(InvalidModePrefix \o m \o InvalidModeSuffix, "invalid_mode")

\* classification with the schema test ahead of the syntax test
ClassifySchemaFirst(msg) ==
    IF \/ Contains(NeedleNoSuchTable, Lower(msg))
       \/ Contains(NeedleNoSuchColumn, Lower(msg)) THEN "schema_error"
    ELSE IF Contains(NeedleSyntaxError, Lower(msg)) THEN "syntax_error"
    ELSE "operational_error"

\* classification of an OperationalError by its lower-cased message
ClassifyOperational(msg) ==
    IF Contains(NeedleSyntaxError, Lower(msg)) THEN "syntax_error"
    ELSE IF \/ Contains(NeedleNoSuchTable, Lower(msg))
            \/ Contains(NeedleNoSuchColumn, Lower(msg)) THEN "schema_error"
    ELSE "operational_error"

\* the except clauses without `except sqlite3.Error`
HandleDatabaseAsUnknown(e) ==
    IF IsInstance(e.cls, "OperationalError")
        THEN Failure(e.msg, ClassifyOperational(e.msg))
    ELSE IF IsInstance(e.cls, "Exception") THEN Failure(e.msg, "unknown_error")
    ELSE [tag |-> "raised", exc |-> e]

\* the except clauses without the last one, `except Exception`
HandleSqliteErrorsOnly(e) ==
    IF IsInstance(e.cls, "OperationalError")
        THEN Failure(e.msg, ClassifyOperational(e.msg))
    ELSE IF IsInstance(e.cls, "Error") THEN Failure(e.msg, "database_error")
    ELSE [tag |-> "raised", exc |-> e]

\* the except clauses of run_sql, in order; an exception none catches propagates
HandleException(e) ==
    IF IsInstance(e.cls, "OperationalError")
        THEN Failure(e.msg, ClassifyOperational(e.msg))
    ELSE IF IsInstance(e.cls, "Error") THEN Failure(e.msg, "database_error")
    ELSE IF IsInstance(e.cls, "Exception") THEN Failure(e.msg, "unknown_error")
    ELSE [tag |-> "raised", exc |-> e]

\* get_db_connection without try/finally: closed on normal exit only
ReleaseOnSuccessOnly(n, e) == IF e = NoExc THEN n - 1 ELSE n

\* leaving get_db_connection with n connections open and exception e (or
\* none) in flight; the finally clause closes the connection either way
ReleaseConnection(n, e) == n - 1

\* ------------------------------------------------------- run_sql: steps
\* the frame of a new call
EnterRunSql(s, m) ==
    /\ sql' = s
    /\ mode' = m
    /\ rpc' = "guard"
    /\ results' = <<>>
    /\ columns' = <<>>
    /\ elapsed' = 0
    /\ exc' = NoExc
    /\ result' = NoResult
    /\ trace' = <<>>
    /\ UNCHANGED conns

\* the frame after the caller has taken the result
LeaveRunSql ==
    /\ sql' = <<>>
    /\ mode' = <<>>
    /\ rpc' = "idle"
    /\ results' = <<>>
    /\ columns' = <<>>
    /\ elapsed' = 0
    /\ exc' = NoExc
    /\ result' = NoResult
    /\ trace' = <<>>
    /\ UNCHANGED conns

\* the destructive-keyword check
RunSqlGuard ==
    /\ rpc = "guard"
    /\ IF IsDestructive(sql)
       THEN /\ result' = Failure(DestructivePrefix \o FirstKeyword(sql) \o DestructiveSuffix,
                                 "safety_violation")
            /\ rpc' = "return"
       ELSE /\ rpc' = "connect"
            /\ UNCHANGED result
    /\ UNCHANGED <<store, sql, mode, conns, results, columns, elapsed, exc, trace, whatifVars, funnelVars, searchVars, artifactVars, agentVars>>

\* entering `with get_db_connection() as conn`
RunSqlConnect ==
    /\ rpc = "connect"
    /\ IF ~store.exists
       THEN /\ exc' = Exc("FileNotFoundError", MsgDatabaseNotFound)
            /\ rpc' = "except"
            /\ UNCHANGED <<conns, trace>>
       ELSE \E opened \in BOOLEAN :
              IF opened
              THEN /\ conns' = conns + 1
                   /\ trace' = Append(trace, "connect")
                   /\ rpc' = "execute"
                   /\ UNCHANGED exc
              ELSE /\ exc' = Exc("OperationalError", MsgCannotOpen)
                   /\ rpc' = "except"
                   /\ UNCHANGED <<conns, trace>>
    /\ UNCHANGED <<store, sql, mode, results, columns, elapsed, result, whatifVars, funnelVars, searchVars, artifactVars, agentVars>>

\* cursor.execute(sql); cursor.fetchall(); timing; column names
RunSqlExecute ==
    /\ rpc = "execute"
    /\ \E out \in Outcomes(sql, store), us \in ElapsedMicros :
         /\ trace' = Append(trace, "execute")
         /\ IF out.tag = "rows"
            THEN /\ results' = out.rows
                 /\ columns' = out.columns
                 /\ elapsed' = us
                 /\ store' = Effect(sql, store)
                 /\ rpc' = "respond"
                 /\ UNCHANGED exc
            ELSE /\ exc' = out.exc
                 /\ rpc' = "close"
                 /\ UNCHANGED <<store, results, columns, elapsed>>
    /\ UNCHANGED <<sql, mode, conns, result, whatifVars, funnelVars, searchVars, artifactVars, agentVars>>

\* the mode switch: the return value is computed inside the with block
RunSqlRespond ==
    /\ rpc = "respond"
    /\ result' = Response(mode, results, columns, elapsed)
    /\ rpc' = "close"
    /\ UNCHANGED <<store, sql, mode, conns, results, columns, elapsed, exc, trace, whatifVars, funnelVars, searchVars, artifactVars, agentVars>>

\* leaving the with block, by return or by exception
RunSqlClose ==
    /\ rpc = "close"
    /\ conns' = ReleaseConnection(conns, exc)
    /\ trace' = Append(trace, "close")
    /\ rpc' = IF exc = NoExc THEN "return" ELSE "except"
    /\ UNCHANGED <<store, sql, mode, results, columns, elapsed, exc, result, whatifVars, funnelVars, searchVars, artifactVars, agentVars>>

\* the except clauses
RunSqlExcept ==
    /\ rpc = "except"
    /\ result' = HandleException(exc)
    /\ rpc' = "return"
    /\ UNCHANGED <<store, sql, mode, conns, results, columns, elapsed, exc, trace, whatifVars, funnelVars, searchVars, artifactVars, agentVars>>

RunSqlStep ==
    \/ RunSqlGuard
    \/ RunSqlConnect
    \/ RunSqlExecute
    \/ RunSqlRespond
    \/ RunSqlClose
    \/ RunSqlExcept

\* ------------------------------------------------------------- clients
RECURSIVE Concat(_)
Concat(fs) == IF Len(fs) = 0 THEN <<>> ELSE Head(fs) \o Concat(Tail(fs))

\* the SQL texts clients send: up to MaxFrags fragments, concatenated
ClientSqls ==
    {Concat(fs) : fs \in UNION {[1..n -> SqlFragments] : n \in 0..MaxFrags}}

\* the mode strings clients send: the three legal ones and two others
ClientModes == {ModeCount, ModePreview, ModeFull, ModeUpperCount, ModeAll}

ClientCall ==
    /\ rpc = "idle"
    /\ \E s \in ClientSqls, m \in ClientModes : EnterRunSql(s, m)
    /\ UNCHANGED <<store, whatifVars, funnelVars, searchVars, artifactVars, agentVars>>

ClientReturn ==
    /\ rpc = "return"
    /\ LeaveRunSql
    /\ UNCHANGED <<store, whatifVars, funnelVars, searchVars, artifactVars, agentVars>>

\* the SQL texts of the clients that write: a query, the two statements that
\* pass the guard, and one the guard rejects
StoreSqls == {Frag1, CreateTableSql, ReplaceSql, Frag4}

StoreCall ==
    /\ rpc = "idle"
    /\ \E s \in StoreSqls, m \in ClientModes : EnterRunSql(s, m)
    /\ UNCHANGED <<store, whatifVars, funnelVars, searchVars, artifactVars, agentVars>>

\* a client that scans the claims
ScanCall ==
    /\ rpc = "idle"
    /\ \E m \in ClientModes : EnterRunSql(ClaimsScanSql, m)
    /\ UNCHANGED <<store, whatifVars, funnelVars, searchVars, artifactVars, agentVars>>

\* ------------------------------------------------- run_sql as one call
\* the values run_sql(s, m) can return on store st: the steps above, start to
\* end, for every answer of the engine
RunSql(s, m, st) ==
    IF IsDestructive(s)
        THEN {Failure(DestructivePrefix \o FirstKeyword(s) \o DestructiveSuffix,
                      "safety_violation")}
    ELSE IF ~st.exists
        THEN {HandleException(Exc("FileNotFoundError", MsgDatabaseNotFound))}
    ELSE {HandleException(Exc("OperationalError", MsgCannotOpen))}
         \cup {IF out.tag = "rows" THEN Response(m, out.rows, out.columns, us)
                ELSE HandleException(out.exc) :
                    out \in Outcomes(s, st), us \in ElapsedMicros}

\* ------------------------------------------------------ funnel: criteria
\* dict.get(key, default)
Get(c, key, default) == IF key \in DOMAIN c THEN c[key] ELSE default

\* criterion.get("id", "unknown")
CriterionId(c) == Get(c, "id", "unknown")

\* criterion.get("description", criterion.get("concept", "Unknown"))
CriterionName(c) == Get(c, "description", Get(c, "concept", NameUnknown))

\* the inclusion rules with the drug rule tried before the diagnosis rule
BuildCriterionSqlDrugFirst(c, base) ==
    LET domain == Lower(Get(c, "domain", <<>>))
        concept == Lower(Get(c, "concept", <<>>))
    IN  IF domain = DomainDemographic \/ Contains(NeedleAge, concept) THEN AgeSql
        ELSE IF domain = DomainDrug \/ Contains(NeedleMetformin, concept) THEN DrugSql
        ELSE IF \/ domain = DomainDiagnosis
                \/ Contains(NeedleDiabetes, concept)
                \/ Contains(NeedleType2, concept) THEN DiagnosisSql
        ELSE DefaultInclusionSql(base)

\* _build_criterion_sql
BuildCriterionSql(c, base) ==
    LET domain == Lower(Get(c, "domain", <<>>))
        concept == Lower(Get(c, "concept", <<>>))
    IN  IF domain = DomainDemographic \/ Contains(NeedleAge, concept) THEN AgeSql
        ELSE IF \/ domain = DomainDiagnosis
                \/ Contains(NeedleDiabetes, concept)
                \/ Contains(NeedleType2, concept) THEN DiagnosisSql
        ELSE IF domain = DomainDrug \/ Contains(NeedleMetformin, concept) THEN DrugSql
        ELSE DefaultInclusionSql(base)

\* the exclusion rules with the cancer rule tried before the heart rule
BuildExclusionSqlCancerFirst(c, current) ==
    LET concept == Lower(Get(c, "concept", <<>>))
    IN  IF Contains(NeedleCancer, concept) THEN CancerSql
        ELSE IF Contains(NeedleHeartFailure, concept) \/ Contains(NeedleHeart, concept)
            THEN HeartFailureSql
        ELSE DefaultExclusionSql

\* _build_exclusion_sql
BuildExclusionSql(c, current) ==
    LET concept == Lower(Get(c, "concept", <<>>))
    IN  IF Contains(NeedleHeartFailure, concept) \/ Contains(NeedleHeart, concept)
            THEN HeartFailureSql
        ELSE IF Contains(NeedleCancer, concept) THEN CancerSql
        ELSE DefaultExclusionSql

\* (a / b * 100) if b > 0 else 0, as an exact fraction
Pct(a, b) == IF b > 0 THEN [num |-> a * 100, den |-> b] ELSE [num |-> 0, den |-> 1]

\* the inclusion step with drop_pct taken of the base, not of the count before
InclusionStepDropOfBase(c, new_count, current, base) ==
    [id |-> CriterionId(c),
     name |-> CriterionName(c),
     type |-> "inclusion",
     count |-> new_count,
     percentage |-> Pct(new_count, base),
     drop_count |-> current - new_count,
     drop_pct |-> Pct(current - new_count, base)]

\* the step an inclusion criterion appends
InclusionStep(c, new_count, current, base) ==
    [id |-> CriterionId(c),
     name |-> CriterionName(c),
     type |-> "inclusion",
     count |-> new_count,
     percentage |-> Pct(new_count, base),
     drop_count |-> current - new_count,
     drop_pct |-> Pct(current - new_count, current)]

\* the exclusion step with the count before it as its drop_count
ExclusionStepDropsAll(c, excluded_count, current, base) ==
    [id |-> CriterionId(c),
     name |-> ExcludePrefix \o CriterionName(c),
     type |-> "exclusion",
     count |-> current - excluded_count,
     percentage |-> Pct(current - excluded_count, base),
     drop_count |-> current,
     drop_pct |-> Pct(excluded_count, current)]

\* the step an exclusion criterion appends
ExclusionStep(c, excluded_count, current, base) ==
    [id |-> CriterionId(c),
     name |-> ExcludePrefix \o CriterionName(c),
     type |-> "exclusion",
     count |-> current - excluded_count,
     percentage |-> Pct(current - excluded_count, base),
     drop_count |-> excluded_count,
     drop_pct |-> Pct(excluded_count, current)]

\* the skip test with a criterion that has no id taken as enabled
EnabledOrNoId(c, enabled) == "id" \notin DOMAIN c \/ c.id \in enabled

\* not (criterion_id not in enabled_inclusion)
InclusionEnabled(c, enabled) == CriterionId(c) \in enabled

\* the exclusion loop without its skip test
ExclusionAlwaysEnabled(c, enabled) == TRUE

\* not (criterion_id not in enabled_exclusion)
ExclusionEnabled(c, enabled) == CriterionId(c) \in enabled

\* the criteria of the documents
InclusionPool ==
    {[id |-> "I01", domain |-> DomainDemographic, concept |-> TextAge,
      description |-> TextAgeRange],
     [domain |-> TextDrugCapital, concept |-> TextMetformin],
     [id |-> "I02", domain |-> TextLab, concept |-> TextUnknownMarker]}

ExclusionPool ==
    {[id |-> "E01", concept |-> TextHeartFailure],
     [concept |-> TextPregnancy]}

\* criteria documents of at most MaxCrit criteria
Documents ==
    UNION {
        {[inclusion |-> i, exclusion |-> e] :
            i \in [1..n[1] -> InclusionPool], e \in [1..n[2] -> ExclusionPool]} :
        n \in {m \in (0..MaxCrit) \X (0..MaxCrit) : m[1] + m[2] <= MaxCrit}}

\* the ids the criteria of a list go by
IdsOf(list) == {CriterionId(list[i]) : i \in 1..Len(list)}

\* the enabled-id lists sent with a document: ids of either of its lists
EnabledSets(dsl) == SUBSET (IdsOf(dsl.inclusion) \cup IdsOf(dsl.exclusion))

\* --------------------------------------------- calculate_whatif: steps
\* the keys of a run_sql result that calculate_whatif reads: "ok", and
\* "preview_rows" when ok is true
ReadKeys(r) ==
    IF r.ok THEN [ok |-> TRUE, preview_rows |-> r.preview_rows] ELSE [ok |-> FALSE]

\* the fallback to 500 taken for every base result, failed or not
BaseCountAlwaysDefault(br) == DefaultBase

\* base_result["preview_rows"][0]["cnt"] if base_result["ok"] else 500
BaseCount(br) == IF br.ok THEN br.preview_rows[1].cnt ELSE DefaultBase

\* an inclusion query that failed taken as a count of 0, with no step
InclusionResultZeroOnFailure(c, r, current, base) ==
    IF r.ok /\ r.preview_rows # <<>>
    THEN [steps |-> <<InclusionStep(c, r.preview_rows[1].cnt, current, base)>>,
          current_count |-> r.preview_rows[1].cnt]
    ELSE [steps |-> <<>>, current_count |-> 0]

\* what the result r of an inclusion query adds to steps, and the count after
InclusionResult(c, r, current, base) ==
    IF r.ok /\ r.preview_rows # <<>>
    THEN [steps |-> <<InclusionStep(c, r.preview_rows[1].cnt, current, base)>>,
          current_count |-> r.preview_rows[1].cnt]
    ELSE [steps |-> <<>>, current_count |-> current]

\* what the result r of an exclusion query adds to steps, and the count after
ExclusionResult(c, r, current, base) ==
    IF r.ok /\ r.preview_rows # <<>>
    THEN [steps |-> <<ExclusionStep(c, r.preview_rows[1].cnt, current, base)>>,
          current_count |-> current - r.preview_rows[1].cnt]
    ELSE [steps |-> <<>>, current_count |-> current]

\* entry; the base population query and its fallback
StartWhatif ==
    /\ wpc = "idle"
    /\ \E br \in RunSql(BasePopulationSql, ModePreview, store),
          dsl \in Documents :
       \E ei \in EnabledSets(dsl), ee \in EnabledSets(dsl) :
         LET base == BaseCount(br)
         IN  /\ base_result' = ReadKeys(br)
             /\ query_result' = NoResult
             /\ enabled_inclusion' = ei
             /\ enabled_exclusion' = ee
             /\ criteria_dsl' = dsl
             /\ steps' = <<>>
             /\ queries' = 1
             /\ base_count' = base
             /\ current_count' = base
             /\ idx' = 1
             /\ wpc' = "inclusion"
    /\ UNCHANGED <<store, execVars, funnelVars, searchVars, artifactVars, agentVars, whatif_result>>

\* one iteration of the inclusion loop, or its end
WhatifInclusion ==
    /\ wpc = "inclusion"
    /\ IF idx > Len(criteria_dsl.inclusion)
       THEN /\ wpc' = "exclusion"
            /\ idx' = 1
            /\ UNCHANGED <<query_result, current_count, steps, queries>>
       ELSE LET c == criteria_dsl.inclusion[idx]
                q == BuildCriterionSql(c, base_count)
            IN  /\ idx' = idx + 1
                /\ UNCHANGED wpc
                /\ IF ~InclusionEnabled(c, enabled_inclusion) \/ q = <<>>
                   THEN UNCHANGED <<query_result, current_count, steps, queries>>
                   ELSE \E r \in RunSql(q, ModePreview, store) :
                          LET out == InclusionResult(c, r, current_count, base_count)
                          IN  /\ query_result' = ReadKeys(r)
                              /\ queries' = queries + 1
                              /\ steps' = steps \o out.steps
                              /\ current_count' = out.current_count
    /\ UNCHANGED <<store, execVars, funnelVars, searchVars, artifactVars, agentVars, enabled_inclusion, enabled_exclusion, criteria_dsl,
                   base_result, base_count, whatif_result>>

\* one iteration of the exclusion loop, or its end and the return
WhatifExclusion ==
    /\ wpc = "exclusion"
    /\ IF idx > Len(criteria_dsl.exclusion)
       THEN /\ wpc' = "done"
            /\ whatif_result' = [base_count |-> base_count,
                                 final_count |-> current_count,
                                 steps |-> steps]
            /\ UNCHANGED <<idx, query_result, current_count, steps, queries>>
       ELSE LET c == criteria_dsl.exclusion[idx]
                q == BuildExclusionSql(c, current_count)
            IN  /\ idx' = idx + 1
                /\ UNCHANGED <<wpc, whatif_result>>
                /\ IF ~ExclusionEnabled(c, enabled_exclusion) \/ q = <<>>
                   THEN UNCHANGED <<query_result, current_count, steps, queries>>
                   ELSE \E r \in RunSql(q, ModePreview, store) :
                          LET out == ExclusionResult(c, r, current_count, base_count)
                          IN  /\ query_result' = ReadKeys(r)
                              /\ queries' = queries + 1
                              /\ steps' = steps \o out.steps
                              /\ current_count' = out.current_count
    /\ UNCHANGED <<store, execVars, funnelVars, searchVars, artifactVars, agentVars, enabled_inclusion, enabled_exclusion, criteria_dsl,
                   base_result, base_count>>

\* ------------------------------------- calculate_whatif: the dispatch rules
TextDemographicCapital ==
    <<"D","e","m","o","g","r","a","p","h","i","c">>

TextBmi ==
    <<"b","m","i">>

TextMetforminDosage ==
    <<"M","e","t","f","o","r","m","i","n"," ","d","o","s","a","g","e">>

TextCancerOfTheHeart ==
    <<"C","a","n","c","e","r"," ","o","f"," ","t","h","e"," ","h","e","a","r","t">>

TextBreastCancer ==
    <<"B","r","e","a","s","t"," ","C","a","n","c","e","r">>

\* inclusion criteria that meet the rules of _build_criterion_sql one by one
\* and several at once
DispatchInclusionPool ==
    {[id |-> "I02", domain |-> DomainDemographic, concept |-> TextBmi],
     [id |-> "I02", domain |-> TextDemographicCapital, concept |-> TextBmi],
     [id |-> "I02", domain |-> DomainDiagnosis, concept |-> TextMetforminDosage],
     [id |-> "I02", domain |-> DomainDrug, concept |-> TextType2Diabetes],
     [id |-> "I02", domain |-> TextLab, concept |-> TextMetformin],
     [id |-> "I02", domain |-> TextLab, concept |-> TextUnknownMarker],
     [id |-> "I02", concept |-> TextType2Diabetes],
     [id |-> "I02"]}

\* exclusion criteria that meet the rules of _build_exclusion_sql
DispatchExclusionPool ==
    {[id |-> "E01", concept |-> TextHeartFailure],
     [id |-> "E01", concept |-> TextCancerOfTheHeart],
     [id |-> "E01", concept |-> TextBreastCancer],
     [id |-> "E01", concept |-> TextPregnancy],
     [id |-> "E01"]}

\* what may stand before the criterion: nothing, or the age criterion, after
\* which the running count may differ from the base count
DispatchPrefixes ==
    {<<>>,
     <<[id |-> "I01", domain |-> DomainDemographic, concept |-> TextAge,
        description |-> TextAgeRange]>>}

\* criteria documents with one criterion of the dispatch pools
DispatchDocuments ==
    {[inclusion |-> pre \o <<c>>, exclusion |-> <<>>] :
        pre \in DispatchPrefixes, c \in DispatchInclusionPool}
    \cup {[inclusion |-> pre, exclusion |-> <<e>>] :
        pre \in DispatchPrefixes, e \in DispatchExclusionPool}

\* entry of calculate_whatif, called with a document of DispatchDocuments
StartWhatifDispatch ==
    /\ wpc = "idle"
    /\ \E br \in RunSql(BasePopulationSql, ModePreview, store),
          dsl \in DispatchDocuments :
       \E ei \in EnabledSets(dsl), ee \in EnabledSets(dsl) :
         LET base == BaseCount(br)
         IN  /\ base_result' = ReadKeys(br)
             /\ query_result' = NoResult
             /\ enabled_inclusion' = ei
             /\ enabled_exclusion' = ee
             /\ criteria_dsl' = dsl
             /\ steps' = <<>>
             /\ queries' = 1
             /\ base_count' = base
             /\ current_count' = base
             /\ idx' = 1
             /\ wpc' = "inclusion"
    /\ UNCHANGED <<store, execVars, funnelVars, searchVars, artifactVars, agentVars, whatif_result>>

\* ------------------------------------------------------ search_concepts
\* the characters of the reference texts, in the order of their codes
AsciiChars == <<" ", "%", "0", "1", "2", "3", "4", "5", "6", "7", "8", "9",
                "A", "B", "C", "D", "E", "F", "G", "H", "I", "J", "K", "L", "M",
                "N", "O", "P", "Q", "R", "S", "T", "U", "V", "W", "X", "Y", "Z",
                "_", "a", "b", "c", "d", "e", "f", "g", "h", "i", "j", "k", "l", "m",
                "n", "o", "p", "q", "r", "s", "t", "u", "v", "w", "x", "y", "z">>

\* character -> its place in AsciiChars
Ord == [c \in {AsciiChars[i] : i \in 1..Len(AsciiChars)} |->
            CHOOSE i \in 1..Len(AsciiChars) : AsciiChars[i] = c]

\* a < b in the BINARY collation
RECURSIVE TextLess(_, _)
TextLess(a, b) ==
    IF b = <<>> THEN FALSE
    ELSE IF a = <<>> THEN TRUE
    ELSE IF Head(a) = Head(b) THEN TextLess(Tail(a), Tail(b))
    ELSE Ord[Head(a)] < Ord[Head(b)]

\* SQL NULL, Python None
Null == <<"NULL">>

\* t LIKE p: % is any run of characters, _ any one character, letters match
\* without regard to case
RECURSIVE Like(_, _)
Like(p, t) ==
    IF p = <<>> THEN t = <<>>
    ELSE IF Head(p) = "%" THEN Like(Tail(p), t) \/ (t # <<>> /\ Like(p, Tail(t)))
    ELSE /\ t # <<>>
         /\ Head(p) = "_" \/ LowerChar(Head(p)) = LowerChar(Head(t))
         /\ Like(Tail(p), Tail(t))

\* LOWER(column) LIKE '%' || search_term || '%'; NULL matches nothing
LikeTerm(search_term, column) ==
    column # Null /\ Like(<<"%">> \o search_term \o <<"%">>, Lower(column))

\* desc_lower.startswith(search_term)
StartsWith(t, prefix) == Len(prefix) <= Len(t) /\ SubSeq(t, 1, Len(prefix)) = prefix

\* search_term in text; the empty term is in every text
In(search_term, text) == search_term = <<>> \/ Contains(search_term, text)

\* rows of ref_icd10
IcdPool ==
    {[table |-> "ref_icd10", code |-> <<"E","1","1">>, description |-> <<"d","i","a">>],
     [table |-> "ref_icd10", code |-> <<"E","1","0">>, description |-> <<"D","i","a","b">>],
     [table |-> "ref_icd10", code |-> <<"E","1","3">>, description |-> <<"a"," ","d","i","a">>],
     [table |-> "ref_icd10", code |-> <<"E","0","8">>, description |-> <<"d","x","a">>]}

\* rows of ref_cpt; the code is a number
CptPool ==
    {[table |-> "ref_cpt", code |-> 99213, description |-> <<"d","i","a"," ","x">>],
     [table |-> "ref_cpt", code |-> 100, description |-> <<"d","x","a">>]}

\* rows of ref_ndc
NdcPool ==
    {[table |-> "ref_ndc", code |-> <<"N","1">>, drug_name |-> <<"d","i","a","m">>, drug_class |-> <<"d","i","a">>],
     [table |-> "ref_ndc", code |-> <<"N","2">>, drug_name |-> <<"D","i","a","m">>, drug_class |-> <<"z","z">>],
     [table |-> "ref_ndc", code |-> <<"N","3">>, drug_name |-> <<"z","z">>, drug_class |-> <<"d","i","a"," ","c">>],
     [table |-> "ref_ndc", code |-> <<"N","4">>, drug_name |-> <<"d","i","a">>, drug_class |-> Null]}

\* primary diagnoses of claims rows
ClaimsPool ==
    {[table |-> "claims", code |-> <<"E","1","1">>, description |-> <<"d","i","a">>],
     [table |-> "claims", code |-> <<"E","9","9">>, description |-> <<"d","i","a"," ","z">>],
     [table |-> "claims", code |-> <<"E","9","9">>, description |-> <<"D","i","a"," ","z">>]}

\* the reference rows of a database: at most MaxRef rows in all
RefContents ==
    {S \in SUBSET (IcdPool \cup CptPool \cup NdcPool \cup ClaimsPool) : Cardinality(S) <= MaxRef}

SearchStores ==
    {[exists |-> FALSE, patients |-> 0, created |-> {}, refs |-> {}]}
    \cup {[exists |-> TRUE, patients |-> 0, created |-> {}, refs |-> r] : r \in RefContents}

\* a claims table with more matching diagnoses than LIMIT 10 lets through:
\* a code a reference row has, a code two descriptions share, a row twice,
\* and codes of their own
LargeClaims ==
    {[table |-> "claims", rowid |-> 1, code |-> <<"1","0","0">>, description |-> <<"d","i","a">>],
     [table |-> "claims", rowid |-> 2, code |-> <<"E","9","9">>, description |-> <<"d","i","a"," ","z">>],
     [table |-> "claims", rowid |-> 3, code |-> <<"E","9","9">>, description |-> <<"D","i","a"," ","z">>],
     [table |-> "claims", rowid |-> 4, code |-> <<"E","9","9">>, description |-> <<"d","i","a"," ","z">>]}
    \cup {[table |-> "claims", rowid |-> 4 + n, code |-> <<"F">> \o IntToStr(n),
           description |-> <<"d","i","a"," ">> \o IntToStr(n)] : n \in 1..9}

\* reference rows of two vocabularies that go by one code
SharedCodeRows ==
    {[table |-> "ref_icd10", code |-> <<"1","0","0">>, description |-> <<"d","i","a">>],
     [table |-> "ref_cpt", code |-> 100, description |-> <<"d","i","a"," ","x">>]}

LargeClaimsStores ==
    {[exists |-> TRUE, patients |-> 0, created |-> {}, refs |-> LargeClaims \cup refs] :
        refs \in SUBSET SharedCodeRows}

\* the terms and the code systems of the callers
Terms == {<<"d","i","a">>, <<"D","i","a">>, <<"d","_","a">>, <<>>}

CodeSystems == {"None", "ICD10CM", "ICD10", "CPT", "NDC", "LOINC"}

\* the orders a query may return the rows of S in: all, or by ORDER BY key
\* with rows of equal keys in any order
Orderings(S, ordered, key) ==
    {f \in [1..Cardinality(S) -> S] :
        /\ \A i, j \in 1..Cardinality(S) : i # j => f[i] # f[j]
        /\ ordered => \A i, j \in 1..Cardinality(S) : i < j => ~TextLess(f[j][key], f[i][key])}

\* SELECT icd_10_code, description FROM ref_icd10 WHERE ... ORDER BY description
IcdQuery(search_term, st) ==
    Orderings({r \in st.refs : r.table = "ref_icd10" /\ LikeTerm(search_term, r.description)},
              TRUE, "description")

\* SELECT cpt_code, description FROM ref_cpt WHERE ... ORDER BY description
CptQuery(search_term, st) ==
    Orderings({r \in st.refs : r.table = "ref_cpt" /\ LikeTerm(search_term, r.description)},
              TRUE, "description")

\* SELECT ndc_code, drug_name, drug_class FROM ref_ndc WHERE ... ORDER BY drug_name
NdcQuery(search_term, st) ==
    Orderings({r \in st.refs :
                  /\ r.table = "ref_ndc"
                  /\ LikeTerm(search_term, r.drug_name) \/ LikeTerm(search_term, r.drug_class)},
              TRUE, "drug_name")

\* LIMIT 10: any SupplementalLimit rows of S, or all of S when it has fewer
Limit(S) ==
    {L \in SUBSET S :
        Cardinality(L) = IF Cardinality(S) < SupplementalLimit THEN Cardinality(S)
                         ELSE SupplementalLimit}

\* rows that carry their rowid, in the order a scan of the table meets them
RECURSIVE ByRowid(_)
ByRowid(S) ==
    IF S = {} THEN <<>>
    ELSE LET first == CHOOSE r \in S : \A q \in S : r.rowid <= q.rowid
         IN  <<first>> \o ByRowid(S \ {first})

Reverse(rows) == [i \in 1..Len(rows) |-> rows[Len(rows) + 1 - i]]

\* DISTINCT on (code, description): a row is kept where the scan meets its
\* values for the first time
Distinct(rows) ==
    LET Fresh(i) == \A j \in 1..(i - 1) :
                        \/ rows[j].code # rows[i].code
                        \/ rows[j].description # rows[i].description
        RECURSIVE From(_)
        From(i) == IF i > Len(rows) THEN <<>>
                   ELSE IF Fresh(i) THEN <<rows[i]>> \o From(i + 1)
                   ELSE From(i + 1)
    IN  From(1)

\* LIMIT 10 on rows that come in an order
FirstRows(rows) ==
    SubSeq(rows, 1, IF Len(rows) < SupplementalLimit THEN Len(rows) ELSE SupplementalLimit)

\* SELECT DISTINCT primary_diagnosis_code, primary_diagnosis_desc FROM claims
\* WHERE ... AND primary_diagnosis_code IS NOT NULL LIMIT 10
\* rows that carry a rowid come as a scan of the table meets them, forwards or
\* (PRAGMA reverse_unordered_selects) backwards; other rows come in any order
ClaimsQuery(search_term, st) ==
    LET S == {r \in st.refs :
                 /\ r.table = "claims"
                 /\ LikeTerm(search_term, r.description)
                 /\ r.code # Null}
    IN  IF \E r \in S : "rowid" \in DOMAIN r
        THEN {FirstRows(Distinct(ByRowid(S))), FirstRows(Distinct(Reverse(ByRowid(S))))}
        ELSE UNION {Orderings(L, FALSE, "description") : L \in Limit(S)}

\* match scores, in tenths
IcdScore(search_term, row) ==
    IF search_term = Lower(row.description) THEN 10
    ELSE IF StartsWith(Lower(row.description), search_term) THEN 9
    ELSE 7

\* the procedure score without its else branch
CptScoreConstant(search_term, row) == 8

CptScore(search_term, row) == IF In(search_term, Lower(row.description)) THEN 8 ELSE 6

NdcScore(search_term, row) ==
    LET name_match == In(search_term, Lower(row.drug_name))
        class_match == In(search_term, Lower(row.drug_class))
    IN  IF name_match /\ class_match THEN 10 ELSE IF name_match THEN 9 ELSE 7

IcdMatch(search_term, row) ==
    [code |-> row.code, description |-> row.description, code_system |-> "ICD10CM",
     match_score |-> IcdScore(search_term, row), matching_logic |-> "wildcard_supported"]

CptMatch(search_term, row) ==
    [code |-> IntToStr(row.code), description |-> row.description, code_system |-> "CPT",
     match_score |-> CptScore(search_term, row), matching_logic |-> "exact_only"]

NdcMatch(search_term, row) ==
    [code |-> row.code,
     description |-> row.drug_name \o <<" ", "(">> \o row.drug_class \o <<")">>,
     drug_name |-> row.drug_name, drug_class |-> row.drug_class, code_system |-> "NDC",
     match_score |-> NdcScore(search_term, row), matching_logic |-> "ingredient_or_class"]

ClaimsMatch(row) ==
    [code |-> row.code, description |-> row.description, code_system |-> "ICD10CM",
     match_score |-> 6, matching_logic |-> "wildcard_supported", source |-> "claims_data"]

\* the loop over the claims rows with every row added
AddClaimsNoDedup(res, rows) == res \o [i \in 1..Len(rows) |-> ClaimsMatch(rows[i])]

\* the loop over the claims rows: a row is added when no match has its code
RECURSIVE AddClaims(_, _)
AddClaims(res, rows) ==
    IF rows = <<>> THEN res
    ELSE AddClaims(IF \E i \in 1..Len(res) : res[i].code = Head(rows).code
                   THEN res
                   ELSE Append(res, ClaimsMatch(Head(rows))),
                   Tail(rows))

\* m put into a list sorted by descending score, ahead of the matches of its score
RECURSIVE InsertAheadOfTies(_, _)
InsertAheadOfTies(sorted, m) ==
    IF sorted = <<>> THEN <<m>>
    ELSE IF Head(sorted).match_score > m.match_score
         THEN <<Head(sorted)>> \o InsertAheadOfTies(Tail(sorted), m)
    ELSE <<m>> \o sorted

\* a descending sort that reverses the order of equal scores
RECURSIVE SortByScoreTiesReversed(_)
SortByScoreTiesReversed(res) ==
    IF res = <<>> THEN <<>>
    ELSE InsertAheadOfTies(SortByScoreTiesReversed(SubSeq(res, 1, Len(res) - 1)),
                           res[Len(res)])

\* m put into a list sorted by descending score, behind the matches of its score
RECURSIVE InsertByScore(_, _)
InsertByScore(sorted, m) ==
    IF sorted = <<>> THEN <<m>>
    ELSE IF Head(sorted).match_score >= m.match_score
         THEN <<Head(sorted)>> \o InsertByScore(Tail(sorted), m)
    ELSE <<m>> \o sorted

\* results.sort(key=match_score, reverse=True): the sort is stable
RECURSIVE SortByScore(_)
SortByScore(res) ==
    IF res = <<>> THEN <<>>
    ELSE InsertByScore(SortByScore(SubSeq(res, 1, Len(res) - 1)), res[Len(res)])

\* nothing fetched yet
NoFetch == [icd |-> <<>>, cpt |-> <<>>, ndc |-> <<>>, claims |-> <<>>]

\* an exception leaves search_concepts; the with block closes the connection
SearchRaise(e) ==
    /\ spc' = "raised"
    /\ search_result' = [tag |-> "raised", exc |-> e]
    /\ conns' = ReleaseConnection(conns, e)
    /\ UNCHANGED <<matches, fetched>>

\* entry, and entering `with get_db_connection() as conn`
SearchStart ==
    /\ spc = "idle"
    /\ \E t \in Terms, cs \in CodeSystems :
         /\ term' = t
         /\ code_system' = cs
    /\ matches' = <<>>
    /\ fetched' = NoFetch
    /\ IF ~store.exists
       THEN /\ spc' = "raised"
            /\ search_result' =
                 [tag |-> "raised", exc |-> Exc("FileNotFoundError", MsgDatabaseNotFound)]
            /\ UNCHANGED conns
       ELSE \E opened \in BOOLEAN :
              IF opened
              THEN /\ conns' = conns + 1
                   /\ spc' = "icd"
                   /\ UNCHANGED search_result
              ELSE /\ spc' = "raised"
                   /\ search_result' =
                        [tag |-> "raised", exc |-> Exc("OperationalError", MsgCannotOpen)]
                   /\ UNCHANGED conns
    /\ UNCHANGED <<store, runSqlFrame, whatifVars, funnelVars, artifactVars, agentVars>>

\* the rows the query of a block can return
BlockRows(block, search_term, st) ==
    CASE block = "icd" -> IcdQuery(search_term, st)
      [] block = "cpt" -> CptQuery(search_term, st)
      [] block = "ndc" -> NdcQuery(search_term, st)
      [] block = "claims" -> ClaimsQuery(search_term, st)

\* results after the loop of a block over the rows of its query
BlockAdd(block, search_term, res, rows) ==
    CASE block = "icd" -> res \o [i \in 1..Len(rows) |-> IcdMatch(search_term, rows[i])]
      [] block = "cpt" -> res \o [i \in 1..Len(rows) |-> CptMatch(search_term, rows[i])]
      [] block = "ndc" -> res \o [i \in 1..Len(rows) |-> NdcMatch(search_term, rows[i])]
      [] block = "claims" -> AddClaims(res, rows)

\* one of the four blocks: skipped, or its query raises, or its rows are added
SearchBlock(block, wanted, next) ==
    /\ IF ~wanted
       THEN /\ spc' = next
            /\ UNCHANGED <<conns, matches, fetched, search_result>>
       ELSE \/ SearchRaise(Exc("OperationalError", MsgLocked))
            \/ \E rows \in BlockRows(block, Lower(term), store) :
                 IF \E i \in 1..Len(rows) :
                        /\ rows[i].table = "ref_ndc"
                        /\ rows[i].drug_name = Null \/ rows[i].drug_class = Null
                 THEN SearchRaise(Exc("AttributeError", MsgNoneLower))
                 ELSE /\ matches' = BlockAdd(block, Lower(term), matches, rows)
                      /\ fetched' = [fetched EXCEPT ![block] = rows]
                      /\ spc' = next
                      /\ UNCHANGED <<conns, search_result>>
    /\ UNCHANGED <<store, runSqlFrame, whatifVars, funnelVars, artifactVars, agentVars, term, code_system>>

\* ICD-10 codes (diagnoses)
SearchIcd ==
    /\ spc = "icd"
    /\ SearchBlock("icd", code_system \in {"None", "ICD10CM", "ICD10"}, "cpt")

\* CPT codes (procedures)
SearchCpt ==
    /\ spc = "cpt"
    /\ SearchBlock("cpt", code_system \in {"None", "CPT"}, "ndc")

\* NDC codes (drugs)
SearchNdc ==
    /\ spc = "ndc"
    /\ SearchBlock("ndc", code_system \in {"None", "NDC"}, "claims")

\* diagnoses found in the claims
SearchClaims ==
    /\ spc = "claims"
    /\ SearchBlock("claims", code_system \in {"None", "ICD10CM", "ICD10"}, "sort")

\* leaving the with block, the sort and the return
SearchSort ==
    /\ spc = "sort"
    /\ conns' = ReleaseConnection(conns, NoExc)
    /\ matches' = SortByScore(matches)
    /\ search_result' = [tag |-> "result", value |-> matches']
    /\ spc' = "done"
    /\ UNCHANGED <<store, runSqlFrame, whatifVars, funnelVars, artifactVars, agentVars, term, code_system, fetched>>

\* --------------------------------------------- calculate_funnel: steps
\* criteria_dsl.get("inclusion", [])
FunnelInclusion(dsl) == Get(dsl, "inclusion", <<>>)

\* any(p.get("domain") == d for p in criteria_dsl.get("inclusion", []))
AnyDomain(dsl, d) ==
    \E i \in 1..Len(FunnelInclusion(dsl)) : Get(FunnelInclusion(dsl)[i], "domain", "None") = d

\* round(x, 1) of the fraction a / b >= 0, in tenths: half to even
Round1(a, b) ==
    LET q == (a * 10) \div b
        r == (a * 10) % b
    IN  IF 2 * r > b \/ (2 * r = b /\ q % 2 = 1) THEN q + 1 ELSE q

\* round((count / base_count * 100), 1), in tenths; dividing by 0 raises
FunnelPct(count, base) ==
    IF base = 0 THEN [tag |-> "raised", exc |-> Exc("ZeroDivisionError", MsgDivisionByZero)]
    ELSE [tag |-> "value", tenths |-> Round1(count * 100, base)]

\* one entry of funnel_steps; pct in tenths of a percent
FunnelStep(name, count, tenths) == [step |-> name, count |-> count, pct |-> tenths]

\* the criteria of the documents calculate_funnel is called with
FunnelPool ==
    InclusionPool
    \cup {[id |-> "I03", domain |-> DomainDiagnosis, concept |-> TextType2Diabetes]}

\* documents with up to MaxCrit inclusion criteria, and one without the key
FunnelDocuments ==
    {[exclusion |-> <<>>]}
    \cup UNION {{[inclusion |-> i, exclusion |-> <<>>] : i \in [1..n -> FunnelPool]} :
                    n \in 0..MaxCrit}

\* the exec_result of the callers: a successful run_sql result of n rows
ExecResults == {[ok |-> TRUE, execution_summary |-> [n |-> n]] : n \in 0..MaxCount}

\* the exception leaves calculate_funnel
FunnelRaise(e) ==
    /\ fpc' = "raised"
    /\ funnel_result' = [tag |-> "raised", exc |-> e]
    /\ UNCHANGED funnel_steps

\* a step with the rounded percentage of count, or the exception of the division
FunnelAppend(name, count, next) ==
    LET pct == FunnelPct(count, funnel_base_count)
    IN  IF pct.tag = "raised" THEN FunnelRaise(pct.exc)
        ELSE /\ funnel_steps' = Append(funnel_steps, FunnelStep(name, count, pct.tenths))
             /\ fpc' = next
             /\ funnel_result' =
                   IF next = "done" THEN [tag |-> "result", steps |-> funnel_steps']
                   ELSE funnel_result

\* entry: the base population query, its fallback, and the first step
StartFunnel ==
    /\ fpc = "idle"
    /\ \E br \in RunSql(BasePopulationSql, ModePreview, store) :
       \E dsl \in FunnelDocuments, er \in ExecResults :
         /\ funnel_dsl' = dsl
         /\ exec_result' = er
         /\ funnel_base_count' = BaseCount(br)
         /\ funnel_steps' = <<FunnelStep("Base Population", BaseCount(br), 1000)>>
         /\ fpc' = "age"
    /\ UNCHANGED <<store, execVars, whatifVars, searchVars, artifactVars, agentVars, funnel_result>>

\* the age filter, when some inclusion criterion has domain "demographic"
FunnelAge ==
    /\ fpc = "age"
    /\ IF AnyDomain(funnel_dsl, DomainDemographic)
       THEN \E r \in RunSql(AgeSql, ModePreview, store) :
              IF r.ok
              THEN FunnelAppend("Age Filter (18-75)", r.preview_rows[1].cnt, "diagnosis")
              ELSE /\ fpc' = "diagnosis"
                   /\ UNCHANGED <<funnel_steps, funnel_result>>
       ELSE /\ fpc' = "diagnosis"
            /\ UNCHANGED <<funnel_steps, funnel_result>>
    /\ UNCHANGED <<store, execVars, whatifVars, searchVars, artifactVars, agentVars, funnel_dsl, exec_result, funnel_base_count>>

\* the diagnosis filter, when some inclusion criterion has domain "diagnosis"
FunnelDiagnosis ==
    /\ fpc = "diagnosis"
    /\ IF AnyDomain(funnel_dsl, DomainDiagnosis)
       THEN \E r \in RunSql(FunnelDxSql, ModePreview, store) :
              IF r.ok
              THEN FunnelAppend("Type 2 Diabetes", r.preview_rows[1].cnt, "final")
              ELSE /\ fpc' = "final"
                   /\ UNCHANGED <<funnel_steps, funnel_result>>
       ELSE /\ fpc' = "final"
            /\ UNCHANGED <<funnel_steps, funnel_result>>
    /\ UNCHANGED <<store, execVars, whatifVars, searchVars, artifactVars, agentVars, funnel_dsl, exec_result, funnel_base_count>>

\* the final cohort step and the return
FunnelFinal ==
    /\ fpc = "final"
    /\ FunnelAppend("Final Cohort", exec_result.execution_summary.n, "done")
    /\ UNCHANGED <<store, execVars, whatifVars, searchVars, artifactVars, agentVars, funnel_dsl, exec_result, funnel_base_count>>

\* ------------------------------------------------------- artifact store
\* names given to save_artifact
ArtifactNames ==
    {
        <<"t","r","i","a","l","_","0","0","1">>,
        <<"c","k","d","_","s","t","u","d","y">>
    }

\* artifact_type values of the docstring
ArtifactTypes == {"bundle", "criteria_dsl"}

\* payloads: JSON objects, which json.dump and json.load give back as they were
Payloads == {[study_id |-> "trial_001"], [study_id |-> "ckd_study"]}

\* zero-padded two digits, as %M and %S format them
Pad2(n) == IF n < 10 THEN <<"0">> \o IntToStr(n) ELSE IntToStr(n)

\* the clock starts at 2025-12-17 14:30:52.000000 and counts half seconds
SecondOf(t) == (52 + t \div 2) % 60

MinuteOf(t) == 30 + (52 + t \div 2) \div 60

\* timestamp.strftime("%Y%m%d_%H%M%S"): the fraction of the second is dropped
Strftime(t) ==
    <<"2","0","2","5","1","2","1","7","_","1","4">>
    \o Pad2(MinuteOf(t)) \o Pad2(SecondOf(t))

\* timestamp.isoformat(): the microseconds are printed when they are not zero
IsoFormat(t) ==
    <<"2","0","2","5","-","1","2","-","1","7","T","1","4",":">>
    \o Pad2(MinuteOf(t)) \o <<":">> \o Pad2(SecondOf(t))
    \o (IF t % 2 = 1 THEN <<".","5","0","0","0","0","0">> ELSE <<>>)

\* f"{name}_{timestamp_str}"
ArtifactId(name, t) == name \o <<"_">> \o Strftime(t)

\* f"{artifact_id}.json", the name of the file inside the artifacts directory
FileName(artifact_id) == artifact_id \o <<".","j","s","o","n">>

\* str(file_path)
FilePath(artifact_id) ==
    <<"a","r","t","i","f","a","c","t","s","/">>
    \o FileName(artifact_id)

\* open(file_path, "w") and json.dump: the file is created, or what it held
\* is replaced
WriteFile(fs, fname, data) ==
    [f \in DOMAIN fs \cup {fname} |-> IF f = fname THEN data ELSE fs[f]]

\* the dictionary save_artifact writes to the file
ArtifactData(name, payload, artifact_type, t) ==
    [artifact_id |-> ArtifactId(name, t),
     artifact_type |-> artifact_type,
     name |-> name,
     timestamp |-> IsoFormat(t),
     data |-> payload]

\* save_artifact(name, payload, artifact_type), called at clock reading t
SaveArtifact ==
    \E name \in ArtifactNames, payload \in Payloads, artifact_type \in ArtifactTypes :
        /\ Len(saves) < MaxSaves
        /\ files' = WriteFile(files, FileName(ArtifactId(name, clock)),
                              ArtifactData(name, payload, artifact_type, clock))
        /\ save_result' =
               [tag |-> "result",
                value |-> [artifact_id |-> ArtifactId(name, clock),
                           file_path |-> FilePath(ArtifactId(name, clock)),
                           timestamp |-> IsoFormat(clock)]]
        /\ saves' = Append(saves, [name |-> name, payload |-> payload,
                                   artifact_id |-> ArtifactId(name, clock)])
        /\ UNCHANGED <<store, execVars, whatifVars, funnelVars, searchVars, agentVars,
                       clock, load_id, load_result>>

\* time passes between two calls
ClockTick ==
    /\ clock < MaxClock
    /\ clock' = clock + 1
    /\ UNCHANGED <<store, execVars, whatifVars, funnelVars, searchVars, agentVars,
                   files, saves, save_result, load_id, load_result>>

\* an id no save has returned
UnknownId == <<"n","o","n","e">>

\* ids a caller may ask for: those returned so far and one that was not
KnownIds == {saves[i].artifact_id : i \in 1..Len(saves)} \cup {UnknownId}

\* load_artifact(artifact_id)
LoadArtifact ==
    \E artifact_id \in KnownIds :
        /\ load_id' = artifact_id
        /\ load_result' =
               IF FileName(artifact_id) \notin DOMAIN files
               THEN [tag |-> "result", value |-> "None"]
               ELSE [tag |-> "result", value |-> files[FileName(artifact_id)]]
        /\ UNCHANGED <<store, execVars, whatifVars, funnelVars, searchVars, agentVars,
                       clock, files, saves, save_result>>

\* --------------------------------------------------------- AgentRunner.run
\* agents as src/agents/agents.py builds them, with the tools cut to those named
DeepResearchAgent ==
    [name |-> "Deep_Research", model |-> "research-model",
     instructions |-> "deep_research prompt", tools |-> <<"search_concepts">>]

OrchestratorAgent ==
    [name |-> "Orchestrator", model |-> "",
     instructions |-> "orchestrator prompt",
     tools |-> <<"transfer_to_deep_research", "run_sql">>]

Agents == {OrchestratorAgent, DeepResearchAgent}

\* self.default_model
DefaultModel == "gpt-4o"

\* context_variables of the callers: none, or a dictionary
ContextVariables == {"None", "study_id"}

\* messages of the callers
UserMessages == <<[role |-> "user", content |-> "parse these criteria"]>>

\* the names a model may call: tools of either agent, whoever is current
CallNames == {"transfer_to_deep_research", "run_sql", "search_concepts"}

\* MsgKeysMustBeStr: json.dumps on a dictionary with a tuple for a key
MsgKeysMustBeStr ==
    <<"k","e","y","s"," ","m","u","s","t"," ","b","e"," ","s","t","r",","," ","i","n","t",",",
      " ","f","l","o","a","t",","," ","b","o","o","l"," ","o","r"," ","N","o","n","e",","," ",
      "n","o","t"," ","t","u","p","l","e">>

\* MsgToolFailed: the message of an exception a tool raises
MsgToolFailed ==
    <<"t","o","o","l"," ","f","a","i","l","e","d">>

\* what tool(**args) does: returns a value json.dumps can write, returns a
\* value it cannot (default=str does not apply to dictionary keys), raises, or
\* returns an Agent
ToolOutcomes(name) ==
    CASE name = "transfer_to_deep_research" -> {[tag |-> "agent", agent |-> DeepResearchAgent]}
      [] name = "run_sql" ->
            {[tag |-> "value", value |-> "rows"],
             [tag |-> "raises", exc |-> Exc("RuntimeError", MsgToolFailed)],
             [tag |-> "unserialisable"]}
      [] name = "search_concepts" ->
            {[tag |-> "value", value |-> "matches"],
             [tag |-> "raises", exc |-> Exc("RuntimeError", MsgToolFailed)]}

\* the messages the model may answer request number t with: some content or
\* none, and up to MaxCalls tool calls with ids of their own
ModelAnswers(t) ==
    {[content |-> c,
      tool_calls |-> [k \in 1..Len(names) |->
                         [id |-> <<t, k>>, type |-> "function",
                          name |-> names[k], arguments |-> "{}"]]] :
        c \in {"", "text"},
        names \in UNION {[1..n -> CallNames] : n \in 0..MaxCalls}}

\* _build_tool_specs
BuildToolSpecs(tools) ==
    [i \in 1..Len(tools) |-> [type |-> "function", function |-> [name |-> tools[i]]]]

\* {tool.__name__: tool for tool in agent.tools}
BuildToolMap(tools) == [n \in {tools[i] : i \in 1..Len(tools)} |-> n]

\* current_agent.model or self.default_model
ModelOf(agent) == IF agent.model # "" THEN agent.model ELSE DefaultModel

\* request_kwargs: tools and tool_choice are set when there are tool specs
RequestKwargs(agent, conv, specs) ==
    IF specs # <<>>
    THEN [model |-> ModelOf(agent), messages |-> conv, tools |-> specs,
          tool_choice |-> "auto"]
    ELSE [model |-> ModelOf(agent), messages |-> conv]

\* assistant_entry
AssistantEntry(msg) ==
    IF msg.tool_calls # <<>>
    THEN [role |-> "assistant", content |-> msg.content,
          tool_calls |-> [k \in 1..Len(msg.tool_calls) |->
                             [id |-> msg.tool_calls[k].id,
                              type |-> msg.tool_calls[k].type,
                              function |-> [name |-> msg.tool_calls[k].name,
                                            arguments |-> msg.tool_calls[k].arguments]]]]
    ELSE [role |-> "assistant", content |-> msg.content]

\* the tool message of a call
ToolMessage(call, content) ==
    [role |-> "tool", tool_call_id |-> call.id, content |-> content]

\* AgentResponse(messages=response_messages, context_variables=ctx)
AgentResponse(msgs) == [tag |-> "result", messages |-> msgs]

\* run(agent, messages, context_variables): lines 70-94
AgentStart ==
    /\ apc = "idle"
    /\ \E agent \in Agents, ctx \in ContextVariables :
         /\ conversation' =
               (IF agent.instructions # ""
                THEN <<[role |-> "system", content |-> agent.instructions]>> ELSE <<>>)
               \o (IF ctx # "None"
                   THEN <<[role |-> "system", content |-> <<"Context variables", ctx>>]>>
                   ELSE <<>>)
               \o UserMessages
         /\ tool_specs' = BuildToolSpecs(agent.tools)
         /\ tool_map' = BuildToolMap(agent.tools)
         /\ current_agent' = agent
    /\ response_messages' = <<>>
    /\ turn' = 0
    /\ apc' = "request"
    /\ UNCHANGED <<store, execVars, whatifVars, funnelVars, searchVars, artifactVars,
                   request_kwargs, message, call_idx, run_result, max_turns>>

\* one pass of `for _ in range(self.max_turns)` up to the tool calls: the
\* request, the assistant entry, and the return when there are no tool calls
AgentRequest ==
    /\ apc = "request"
    /\ turn < max_turns
    /\ turn' = turn + 1
    /\ request_kwargs' = RequestKwargs(current_agent, conversation, tool_specs)
    /\ \E msg \in ModelAnswers(turn + 1) :
         LET said == IF msg.content # ""
                     THEN Append(response_messages,
                                 [role |-> "assistant", content |-> msg.content])
                     ELSE response_messages
         IN  /\ message' = msg
             /\ conversation' = Append(conversation, AssistantEntry(msg))
             /\ IF msg.tool_calls = <<>>
                THEN /\ response_messages' =
                           IF said = <<>>
                           THEN <<[role |-> "assistant", content |-> msg.content]>>
                           ELSE said
                     /\ run_result' = AgentResponse(response_messages')
                     /\ apc' = "done"
                     /\ UNCHANGED call_idx
                ELSE /\ response_messages' = said
                     /\ call_idx' = 1
                     /\ apc' = "tools"
                     /\ UNCHANGED run_result
    /\ UNCHANGED <<store, execVars, whatifVars, funnelVars, searchVars, artifactVars,
                   current_agent, tool_specs, tool_map, max_turns>>

\* the end of an iteration of `for call in tool_calls`
NextCall ==
    IF call_idx = Len(message.tool_calls)
    THEN apc' = "request" /\ call_idx' = 0
    ELSE apc' = "tools" /\ call_idx' = call_idx + 1

\* a tool message is appended and the loop goes on
AppendToolMessage(call, content) ==
    /\ conversation' = Append(conversation, ToolMessage(call, content))
    /\ NextCall
    /\ UNCHANGED <<current_agent, tool_specs, tool_map, run_result>>

\* the tool returned an Agent: lines 153-170
Handoff(call, agent) ==
    /\ current_agent' = agent
    /\ tool_specs' = BuildToolSpecs(agent.tools)
    /\ tool_map' = BuildToolMap(agent.tools)
    /\ conversation' =
          conversation
          \o <<ToolMessage(call, [handoff |-> agent.name]),
               [role |-> "system", content |-> agent.instructions]>>
    /\ NextCall
    /\ UNCHANGED run_result

\* an exception leaves run
AgentRaise(e) ==
    /\ apc' = "raised"
    /\ run_result' = [tag |-> "raised", exc |-> e]
    /\ UNCHANGED <<conversation, current_agent, tool_specs, tool_map, call_idx>>

\* one iteration of `for call in tool_calls`: lines 139-178
AgentToolCall ==
    /\ apc = "tools"
    /\ LET call == message.tool_calls[call_idx]
       IN  IF call.name \notin DOMAIN tool_map
           THEN AppendToolMessage(call, [error |-> <<"Unknown tool", call.name>>])
           ELSE \E out \in ToolOutcomes(call.name) :
                  CASE out.tag = "raises" ->
                         IF IsInstance(out.exc.cls, "Exception")
                         THEN AppendToolMessage(call, [error |-> out.exc.msg])
                         ELSE AgentRaise(out.exc)
                    [] out.tag = "agent" -> Handoff(call, out.agent)
                    [] out.tag = "value" -> AppendToolMessage(call, [json |-> out.value])
                    [] out.tag = "unserialisable" ->
                         AgentRaise(Exc("TypeError", MsgKeysMustBeStr))
    /\ UNCHANGED <<store, execVars, whatifVars, funnelVars, searchVars, artifactVars,
                   turn, response_messages, request_kwargs, message, max_turns>>

\* the for loop has run max_turns times: line 180
AgentExhausted ==
    /\ apc = "request"
    /\ turn >= max_turns
    /\ apc' = "done"
    /\ run_result' = AgentResponse(response_messages)
    /\ UNCHANGED <<store, execVars, whatifVars, funnelVars, searchVars, artifactVars,
                   turn, conversation, response_messages, current_agent, tool_specs,
                   tool_map, request_kwargs, message, call_idx, max_turns>>

\* -------------------------------------------------------- specifications
InitCalls ==
    /\ rpc = "idle"
    /\ sql = <<>>
    /\ mode = <<>>
    /\ conns = 0
    /\ results = <<>>
    /\ columns = <<>>
    /\ elapsed = 0
    /\ exc = NoExc
    /\ result = NoResult
    /\ trace = <<>>
    /\ wpc = "idle"
    /\ enabled_inclusion = {}
    /\ enabled_exclusion = {}
    /\ criteria_dsl = [inclusion |-> <<>>, exclusion |-> <<>>]
    /\ idx = 0
    /\ base_result = NoResult
    /\ query_result = NoResult
    /\ base_count = 0
    /\ current_count = 0
    /\ steps = <<>>
    /\ queries = 0
    /\ whatif_result = NoResult
    /\ fpc = "idle"
    /\ funnel_dsl = [inclusion |-> <<>>, exclusion |-> <<>>]
    /\ exec_result = NoResult
    /\ funnel_base_count = 0
    /\ funnel_steps = <<>>
    /\ funnel_result = NoResult
    /\ spc = "idle"
    /\ term = <<>>
    /\ code_system = "None"
    /\ matches = <<>>
    /\ fetched = NoFetch
    /\ search_result = NoResult
    /\ clock = 0
    /\ files = <<>>
    /\ saves = <<>>
    /\ save_result = NoResult
    /\ load_id = <<>>
    /\ load_result = NoResult
    /\ apc = "idle"
    /\ turn = 0
    /\ conversation = <<>>
    /\ response_messages = <<>>
    /\ current_agent = "None"
    /\ tool_specs = <<>>
    /\ tool_map = {}
    /\ request_kwargs = NoResult
    /\ message = NoResult
    /\ call_idx = 0
    /\ run_result = NoResult
    /\ max_turns = MaxTurns

\* no call in progress, on a store without reference rows
Init == store \in Stores /\ InitCalls

\* no call in progress, on a store with reference rows
InitSearch == store \in SearchStores /\ InitCalls

\* run_sql called by clients, one call after another
Next == ClientCall \/ ClientReturn \/ RunSqlStep

Spec == Init /\ [][Next]_vars

\* one calculate_whatif run
NextWhatif == StartWhatif \/ WhatifInclusion \/ WhatifExclusion

SpecWhatif == Init /\ [][NextWhatif]_vars

\* run_sql called by clients that send statements other than queries
NextStore == StoreCall \/ ClientReturn \/ RunSqlStep

SpecStore == Init /\ [][NextStore]_vars

\* run_sql called by clients that scan the claims
NextScan == ScanCall \/ ClientReturn \/ RunSqlStep

SpecScan == Init /\ [][NextScan]_vars

\* one search_concepts call
NextSearch ==
    SearchStart \/ SearchIcd \/ SearchCpt \/ SearchNdc \/ SearchClaims \/ SearchSort

SpecSearch == InitSearch /\ [][NextSearch]_vars

\* no call in progress, on a store whose claims hold many diagnoses
InitSupplement == store \in LargeClaimsStores /\ InitCalls

\* one search_concepts call on such a store
SpecSupplement == InitSupplement /\ [][NextSearch]_vars

\* one calculate_funnel run
NextFunnel == StartFunnel \/ FunnelAge \/ FunnelDiagnosis \/ FunnelFinal

SpecFunnel == Init /\ [][NextFunnel]_vars

\* save_artifact and load_artifact called one after another while time passes
NextArtifact == SaveArtifact \/ ClockTick \/ LoadArtifact

SpecArtifact == Init /\ [][NextArtifact]_vars

\* one calculate_whatif run on a document of the dispatch pools
NextDispatch == StartWhatifDispatch \/ WhatifInclusion \/ WhatifExclusion

SpecDispatch == Init /\ [][NextDispatch]_vars

\* one AgentRunner.run call
NextAgent == AgentStart \/ AgentRequest \/ AgentToolCall \/ AgentExhausted

SpecAgent == Init /\ [][NextAgent]_vars

\* --------------------------------------------------------------- checks
ValidModes == {ModeCount, ModePreview, ModeFull}

\* the call has returned a result map (not raised)
Returned == rpc = "return" /\ result.tag = "result"

\* a call that returns has one of the values of RunSql (for the statement
\* that changes the store, RunSql would have to be asked of the store before)
StepsAgreeWithRunSql ==
    (rpc = "return" /\ sql # CreateTableSql) => result \in RunSql(sql, mode, store)

\* the upper-cased text of the SQL of the call contains a denylisted keyword
SqlHasKeyword ==
    \E k \in 1..Len(destructive_keywords) :
        Contains(destructive_keywords[k], Upper(sql))

\* C1: a call whose upper-cased SQL contains DROP, DELETE, TRUNCATE, UPDATE,
\* INSERT or ALTER anywhere returns ok=false, safety_violation, in every mode,
\* having acquired no connection and sent nothing to the store
C1_DenylistRejectsBeforeExecution ==
    (rpc \notin {"idle", "guard"} /\ SqlHasKeyword) =>
        /\ Returned
        /\ ~result.ok
        /\ result.error_type = "safety_violation"
        /\ trace = <<>>
        /\ conns = 0

\* C1 witness: "SELECT * FROM patients WHERE name = 'Update'" is rejected
C1_Witness ==
    /\ Returned
    /\ sql = Frag1 \o Frag2
    /\ ~result.ok
    /\ result.error_type = "safety_violation"
    /\ trace = <<>>

\* C4: every call returns a result map; a denylist hit, a missing database
\* file, an engine error, any other exception and an invalid mode all come
\* back as ok=false with an error message and an error type
C4_NeverRaises ==
    rpc = "return" =>
        /\ result.tag = "result"
        /\ (SqlHasKeyword \/ exc # NoExc \/ mode \notin ValidModes) => ~result.ok
        /\ ~result.ok => {"error", "error_type"} \subseteq DOMAIN result

\* C4 witness: the database file is missing and the call returns ok=false
C4_Witness ==
    /\ Returned
    /\ exc.cls = "FileNotFoundError"
    /\ ~result.ok
    /\ result.error = MsgDatabaseNotFound

\* the query of the call ran to the end without an exception
ExecutedOk == rpc = "return" /\ exc = NoExc /\ trace = <<"connect", "execute", "close">>

\* row dict d holds values of row r under the names cols
RowOf(d, r, cols) ==
    /\ DOMAIN d = {cols[j] : j \in 1..Len(cols)}
    /\ \A c \in DOMAIN d : \E j \in 1..Len(cols) : cols[j] = c /\ d[c] = r[j]

\* C6: a query that executes with a valid mode returns ok=true with n the
\* number of rows produced; preview_rows is empty for count, the first
\* min(10, n) rows in order for preview, all n rows in order for full
C6_RowsByMode ==
    (ExecutedOk /\ mode \in ValidModes) =>
        /\ result.tag = "result"
        /\ result.ok
        /\ result.execution_summary.n = Len(results)
        /\ LET rows == result.preview_rows
               n == Len(results)
           IN  /\ mode = ModeCount => rows = <<>>
               /\ mode = ModePreview =>
                     Len(rows) = (IF n < PreviewLimit THEN n ELSE PreviewLimit)
               /\ mode = ModeFull => Len(rows) = n
               /\ \A i \in 1..Len(rows) : RowOf(rows[i], results[i], columns)

\* C6 witness: a preview of a query that produced more than 10 rows
C6_Witness ==
    /\ ExecutedOk
    /\ mode = ModePreview
    /\ Len(results) > PreviewLimit
    /\ result.ok
    /\ Len(result.preview_rows) = PreviewLimit

\* C7: an OperationalError is classified by its lower-cased message: "syntax
\* error" first, then "no such table" / "no such column", else operational;
\* the error field is the message unchanged
C7_OperationalClassified ==
    (rpc = "return" /\ exc.cls = "OperationalError") =>
        /\ result.tag = "result"
        /\ ~result.ok
        /\ result.error = exc.msg
        /\ result.error_type =
             (IF Contains(NeedleSyntaxError, Lower(exc.msg)) THEN "syntax_error"
              ELSE IF \/ Contains(NeedleNoSuchTable, Lower(exc.msg))
                      \/ Contains(NeedleNoSuchColumn, Lower(exc.msg))
                   THEN "schema_error"
              ELSE "operational_error")

\* C7 witness: a message holding both "no such column" and "syntax error"
C7_Witness ==
    /\ Returned
    /\ exc = Exc("OperationalError", MsgSyntaxNearNoColumn)
    /\ result.error_type = "syntax_error"

\* C8: a call whose SQL passes the guard and whose mode is not count, preview
\* or full fails with invalid_mode, whatever executing the SQL does
C8_InvalidModeAlwaysReported ==
    (rpc = "return" /\ ~SqlHasKeyword /\ mode \notin ValidModes) =>
        /\ result.tag = "result"
        /\ ~result.ok
        /\ result.error_type = "invalid_mode"

\* C9: at most one connection is open at any time, none is open between
\* calls or when a call returns, and a call that connected closed last
C9_ConnectionReleased ==
    /\ conns \in {0, 1}
    /\ rpc \in {"idle", "guard", "connect", "except", "return"} => conns = 0
    /\ (rpc = "return" /\ trace # <<>>) =>
          trace[1] = "connect" /\ trace[Len(trace)] = "close"

\* C9 witness: a call that connected and whose query raised has returned
C9_Witness ==
    /\ Returned
    /\ exc # NoExc
    /\ trace = <<"connect", "execute", "close">>
    /\ conns = 0

\* the count the funnel ran with just before step i
CountBefore(i) == IF i = 1 THEN base_count ELSE steps[i - 1].count

\* C2: the running count after each emitted step is at most the running
\* count before it
C2_FunnelMonotone == \A i \in 1..Len(steps) : steps[i].count <= CountBefore(i)

\* C3: every step has 0 <= percentage <= 100 and percentage =
\* count / base_count * 100, and percentage 0 when base_count is 0
C3_PercentageOfBase ==
    \A i \in 1..Len(steps) :
        LET p == steps[i].percentage
        IN  /\ 0 <= p.num
            /\ p.num <= 100 * p.den
            /\ base_count = 0 => p.num = 0
            /\ base_count # 0 => p.num * base_count = steps[i].count * 100 * p.den

\* C5: every step has count >= 0, and the final_count returned is >= 0
C5_CountsNonNegative ==
    /\ \A i \in 1..Len(steps) : steps[i].count >= 0
    /\ wpc = "done" => whatif_result.final_count >= 0

\* the loop stands at a criterion whose id is not in its enabled list
AtDisabledCriterion ==
    \/ /\ wpc = "inclusion"
       /\ idx <= Len(criteria_dsl.inclusion)
       /\ Get(criteria_dsl.inclusion[idx], "id", "unknown") \notin enabled_inclusion
    \/ /\ wpc = "exclusion"
       /\ idx <= Len(criteria_dsl.exclusion)
       /\ Get(criteria_dsl.exclusion[idx], "id", "unknown") \notin enabled_exclusion

\* C10: a criterion whose id is not in the enabled list of its kind emits no
\* step, runs no query and leaves current_count and the steps unchanged
C10_DisabledCriterionSkipped ==
    [][AtDisabledCriterion =>
        /\ steps' = steps
        /\ current_count' = current_count
        /\ queries' = queries
        /\ idx' = idx + 1]_vars

\* C10 witness: the first inclusion criterion was not enabled and was passed
\* over, with no query but the base query
C10_Witness ==
    /\ wpc = "inclusion"
    /\ idx = 2
    /\ Get(criteria_dsl.inclusion[1], "id", "unknown") \notin enabled_inclusion
    /\ steps = <<>>
    /\ queries = 1
    /\ current_count = base_count

\* the loop stands at a criterion whose id is in its enabled list
AtEnabledInclusion ==
    /\ wpc = "inclusion"
    /\ idx <= Len(criteria_dsl.inclusion)
    /\ Get(criteria_dsl.inclusion[idx], "id", "unknown") \in enabled_inclusion

AtEnabledExclusion ==
    /\ wpc = "exclusion"
    /\ idx <= Len(criteria_dsl.exclusion)
    /\ Get(criteria_dsl.exclusion[idx], "id", "unknown") \in enabled_exclusion

\* the query of the step just taken failed or came back with no rows
QueryGaveNothing(r) == ~r.ok \/ r.preview_rows = <<>>

\* C11: an enabled criterion whose query fails or returns no rows emits no
\* step and leaves current_count unchanged; the run goes on to the next
\* criterion of the list with the state a disabled criterion would leave
C11_FailedQueryOmitsStep ==
    [][((AtEnabledInclusion \/ AtEnabledExclusion) /\ QueryGaveNothing(query_result')) =>
        /\ queries' = queries + 1
        /\ steps' = steps
        /\ current_count' = current_count
        /\ base_count' = base_count
        /\ wpc' = wpc
        /\ idx' = idx + 1]_vars

\* C11 witness: of two enabled inclusion criteria with different ids the
\* first one's query failed and the second one's step was emitted
C11_Witness ==
    /\ wpc = "inclusion"
    /\ idx = 3
    /\ queries = 3
    /\ Len(steps) = 1
    /\ CriterionId(criteria_dsl.inclusion[1]) # CriterionId(criteria_dsl.inclusion[2])
    /\ steps[1].id = CriterionId(criteria_dsl.inclusion[2])
    /\ query_result.ok

\* fraction p is a / b * 100
IsPctOf(p, a, b) == p.num * b = a * 100 * p.den

\* the step the transition appended
NewStep == steps'[Len(steps')]

\* C12: an enabled inclusion criterion whose query succeeds with r, at
\* running count c and base b, appends one step of type inclusion with
\* count r, drop_count c - r, drop_pct (c - r)/c*100 (0 if c = 0) and
\* percentage r/b*100, and sets the running count to r
C12_InclusionStepValues ==
    [][(AtEnabledInclusion /\ ~QueryGaveNothing(query_result')) =>
        LET r == query_result'.preview_rows[1].cnt
            c == current_count
            b == base_count
        IN  /\ Len(steps') = Len(steps) + 1
            /\ SubSeq(steps', 1, Len(steps)) = steps
            /\ NewStep.type = "inclusion"
            /\ NewStep.count = r
            /\ NewStep.drop_count = c - r
            /\ c = 0 => NewStep.drop_pct.num = 0
            /\ c # 0 => IsPctOf(NewStep.drop_pct, c - r, c)
            /\ b # 0 => IsPctOf(NewStep.percentage, r, b)
            /\ current_count' = r]_vars

\* C12 witness: with b = 500 and c = 1 a second inclusion query answered 0:
\* count 0, percentage 0, drop_count 1, drop_pct 100
C12_Witness ==
    /\ wpc = "inclusion"
    /\ base_count = DefaultBase
    /\ Len(steps) = 2
    /\ steps[1].count = 1
    /\ steps[1].drop_count = DefaultBase - 1
    /\ steps[1].percentage = [num |-> 100, den |-> DefaultBase]
    /\ steps[2].type = "inclusion"
    /\ steps[2].count = 0
    /\ steps[2].drop_count = 1
    /\ steps[2].drop_pct = [num |-> 100, den |-> 1]
    /\ current_count = 0

\* C13: an enabled exclusion criterion whose query succeeds with e, at
\* running count c, appends one step of type exclusion, named "Exclude: " and
\* the criterion's name, with count c - e, drop_count e and drop_pct e/c*100
\* (0 if c = 0), and sets the running count to c - e
C13_ExclusionStepValues ==
    [][(AtEnabledExclusion /\ ~QueryGaveNothing(query_result')) =>
        LET e == query_result'.preview_rows[1].cnt
            c == current_count
            crit == criteria_dsl.exclusion[idx]
        IN  /\ Len(steps') = Len(steps) + 1
            /\ SubSeq(steps', 1, Len(steps)) = steps
            /\ NewStep.type = "exclusion"
            /\ NewStep.name =
                  ExcludePrefix \o Get(crit, "description", Get(crit, "concept", NameUnknown))
            /\ NewStep.count = c - e
            /\ NewStep.drop_count = e
            /\ c = 0 => NewStep.drop_pct.num = 0
            /\ c # 0 => IsPctOf(NewStep.drop_pct, e, c)
            /\ current_count' = c - e]_vars

\* the criterion matches none of the rules of _build_criterion_sql
MatchesNoRule(c) ==
    LET domain == Lower(Get(c, "domain", <<>>))
        concept == Lower(Get(c, "concept", <<>>))
    IN  /\ domain \notin {DomainDemographic, DomainDiagnosis, DomainDrug}
        /\ \A needle \in {NeedleAge, NeedleDiabetes, NeedleType2, NeedleMetformin} :
              ~Contains(needle, concept)

\* C14: an enabled inclusion criterion that matches no dispatch rule is
\* compiled to "SELECT <base_count> as cnt", and the step it emits has count
\* base_count and drop_count 0, wherever it stands in the inclusion list
C14_DefaultCriterionKeepsCount ==
    [][(AtEnabledInclusion /\ MatchesNoRule(criteria_dsl.inclusion[idx])) =>
        /\ BuildCriterionSql(criteria_dsl.inclusion[idx], base_count)
              = SelectSpace \o IntToStr(base_count) \o AsCnt
        /\ ~QueryGaveNothing(query_result') =>
              /\ NewStep.count = base_count
              /\ NewStep.drop_count = 0]_vars

\* C15: base_count comes from the one base query that opens the run; when
\* that query failed it is 500; it never changes during the run, the run
\* reaches its return, and the base_count returned and the percentage of
\* every step are taken of that value
C15_BaseCountFallback ==
    /\ [](wpc # "idle" =>
            /\ queries >= 1
            /\ (wpc = "inclusion" /\ idx = 1) => queries = 1
            /\ base_result.ok => base_count = base_result.preview_rows[1].cnt
            /\ ~base_result.ok => base_count = DefaultBase
            /\ \A i \in 1..Len(steps) :
                  base_count # 0 => IsPctOf(steps[i].percentage, steps[i].count, base_count)
            /\ wpc = "done" => whatif_result.base_count = base_count)
    /\ [][wpc # "idle" => (base_count' = base_count /\ base_result' = base_result)]_vars

\* C15 witness: the base query failed and the run returned base_count 500
\* with a step whose percentage is its count out of 500
C15_Witness ==
    /\ wpc = "done"
    /\ ~base_result.ok
    /\ whatif_result.base_count = DefaultBase
    /\ Len(whatif_result.steps) = 2
    /\ whatif_result.steps[1].count = 1
    /\ whatif_result.steps[1].percentage = [num |-> 100, den |-> DefaultBase]

\* C17: every step, inclusion or exclusion, has 0 <= drop_pct <= 100
C17_DropPctInRange ==
    \A i \in 1..Len(steps) :
        /\ 0 <= steps[i].drop_pct.num
        /\ steps[i].drop_pct.num <= 100 * steps[i].drop_pct.den

\* C16: calculate_funnel never ends in a division-by-zero error, and with a
\* base population count of 0 every percentage it computes by division is 0
C16_NoDivisionByZero ==
    /\ fpc # "raised"
    /\ funnel_result.tag # "raised"
    /\ (fpc # "idle" /\ funnel_base_count = 0) =>
          \A i \in 2..Len(funnel_steps) : funnel_steps[i].pct = 0

\* the error types of the spec's taxonomy
Taxonomy ==
    {"safety_violation", "syntax_error", "schema_error", "operational_error",
     "unknown_error", "invalid_mode"}

\* C18 as stated: every ok=false result has an error type of the taxonomy,
\* and an exception that is not an OperationalError gives unknown_error
C18_ErrorTaxonomy ==
    (Returned /\ ~result.ok) =>
        /\ result.error_type \in Taxonomy
        /\ (exc # NoExc /\ ~IsInstance(exc.cls, "OperationalError")) =>
              result.error_type = "unknown_error"

\* C18 amended: every ok=false result has an error type of the taxonomy or
\* database_error; an exception of the driver (sqlite3.Error) that is not an
\* OperationalError gives database_error, any other exception that is not
\* an OperationalError gives unknown_error
C18_ErrorTaxonomyWithDatabaseError ==
    (Returned /\ ~result.ok) =>
        /\ result.error_type \in Taxonomy \cup {"database_error"}
        /\ (exc # NoExc /\ ~IsInstance(exc.cls, "OperationalError")) =>
              result.error_type =
                IF IsInstance(exc.cls, "Error") THEN "database_error" ELSE "unknown_error"
        /\ result.error_type \in {"database_error", "unknown_error"} =>
              (exc # NoExc /\ ~IsInstance(exc.cls, "OperationalError"))

\* C18 witness: executing two statements at once raised ProgrammingError and
\* the call returned database_error
C18_Witness ==
    /\ Returned
    /\ exc = Exc("ProgrammingError", MsgOneStatement)
    /\ ~result.ok
    /\ result.error_type = "database_error"
    /\ result.error = MsgOneStatement

\* C19: no run_sql call, rejected, failed or successful, changes the tables
\* or the rows of the data store
C19_StoreUnchanged == [][store' = store]_vars

\* the matches of list res that have score sc, in the order of res
WithScore(res, sc) ==
    LET Test(m) == m.match_score = sc
    IN  SelectSeq(res, Test)

\* list a is list b with some elements left out
IsSubsequence(a, b) ==
    \E f \in [1..Len(a) -> 1..Len(b)] :
        /\ \A i, j \in 1..Len(a) : i < j => f[i] < f[j]
        /\ \A i \in 1..Len(a) : a[i] = b[f[i]]

\* the unsorted matches are the diagnosis rows, then the procedure rows, then
\* the drug rows, then rows of the claims, each in the order its query gave
EnumeratedByVocabulary ==
    LET n1 == Len(fetched.icd)
        n2 == Len(fetched.cpt)
        n3 == Len(fetched.ndc)
        rest == SubSeq(matches, n1 + n2 + n3 + 1, Len(matches))
    IN  /\ Len(matches) >= n1 + n2 + n3
        /\ \A i \in 1..n1 :
              /\ matches[i].code_system = "ICD10CM"
              /\ "source" \notin DOMAIN matches[i]
              /\ matches[i].code = fetched.icd[i].code
              /\ matches[i].description = fetched.icd[i].description
        /\ \A i \in 1..n2 :
              /\ matches[n1 + i].code_system = "CPT"
              /\ matches[n1 + i].description = fetched.cpt[i].description
        /\ \A i \in 1..n3 :
              /\ matches[n1 + n2 + i].code_system = "NDC"
              /\ matches[n1 + n2 + i].code = fetched.ndc[i].code
              /\ matches[n1 + n2 + i].drug_name = fetched.ndc[i].drug_name
        /\ \A i \in 1..Len(rest) : rest[i].source = "claims_data"
        /\ IsSubsequence(
              [i \in 1..Len(rest) |-> <<rest[i].code, rest[i].description>>],
              [i \in 1..Len(fetched.claims) |->
                  <<fetched.claims[i].code, fetched.claims[i].description>>])

\* C20: the list returned holds the matches in descending order of
\* match_score, and the matches of one score stand in it as they were
\* enumerated: diagnosis rows, procedure rows, drug rows, then claims rows,
\* each group in the order its query returned them
C20_SortedStable ==
    /\ [](spc = "sort" => EnumeratedByVocabulary)
    /\ [][spc = "sort" =>
            LET out == search_result'.value
            IN  /\ search_result'.tag = "result"
                /\ Len(out) = Len(matches)
                /\ \A i, j \in 1..Len(out) :
                      i < j => out[i].match_score >= out[j].match_score
                /\ \A sc \in 0..10 : WithScore(out, sc) = WithScore(matches, sc)]_vars

\* C20 witness: a diagnosis match and a drug match of equal score were
\* returned behind a procedure match of a higher score enumerated between them
C20_Witness ==
    /\ spc = "done"
    /\ Len(search_result.value) = 3
    /\ search_result.value[1].code_system = "CPT"
    /\ search_result.value[2].code_system = "ICD10CM"
    /\ search_result.value[3].code_system = "NDC"
    /\ search_result.value[2].match_score = search_result.value[3].match_score
    /\ search_result.value[1].match_score > search_result.value[2].match_score

\* C21: every artifact_id save_artifact returns differs from all earlier ones,
\* so each saved file still holds the payload of the call that returned its id,
\* and load_artifact of a returned id yields that payload
C21_UniqueArtifactIds ==
    /\ \A i, j \in 1..Len(saves) :
           i < j => saves[i].artifact_id # saves[j].artifact_id
    /\ \A i \in 1..Len(saves) :
           /\ FileName(saves[i].artifact_id) \in DOMAIN files
           /\ files[FileName(saves[i].artifact_id)].data = saves[i].payload
    /\ \A i \in 1..Len(saves) :
           (load_result.tag = "result" /\ load_id = saves[i].artifact_id) =>
               /\ load_result.value # "None"
               /\ load_result.value.data = saves[i].payload

\* the rules of inclusion compilation, on the domain d and the lower-cased
\* concept of criterion c
AgeRule(d, c) ==
    d = DomainDemographic \/ Contains(NeedleAge, Lower(Get(c, "concept", <<>>)))

DiagnosisRule(d, c) ==
    \/ d = DomainDiagnosis
    \/ Contains(NeedleDiabetes, Lower(Get(c, "concept", <<>>)))
    \/ Contains(NeedleType2, Lower(Get(c, "concept", <<>>)))

DrugRule(d, c) ==
    d = DomainDrug \/ Contains(NeedleMetformin, Lower(Get(c, "concept", <<>>)))

\* the query of criterion c is the one of the first rule that matches on
\* domain d, and the default on base b exactly when none does
FirstRuleWins(q, d, c, b) ==
    /\ q = AgeSql <=> AgeRule(d, c)
    /\ q = DiagnosisSql <=> (~AgeRule(d, c) /\ DiagnosisRule(d, c))
    /\ q = DrugSql <=> (~AgeRule(d, c) /\ ~DiagnosisRule(d, c) /\ DrugRule(d, c))
    /\ q = DefaultInclusionSql(b)
           <=> (~AgeRule(d, c) /\ ~DiagnosisRule(d, c) /\ ~DrugRule(d, c))

\* C22 as stated: the rules test the domain as given and the lower-cased
\* concept, in the order age, diagnosis, drug, default on the base count
C22_DispatchOnDomainAsGiven ==
    AtEnabledInclusion =>
        LET c == criteria_dsl.inclusion[idx]
        IN  FirstRuleWins(BuildCriterionSql(c, base_count),
                          Get(c, "domain", <<>>), c, base_count)

\* C22: the rules test the lower-cased domain and the lower-cased concept, in
\* the order age, diagnosis, drug; the first match wins, the default
\* SELECT <base_count> is taken exactly when none matches, and the query
\* is a function of the criterion and the base count, whatever the running count
C22_DispatchOnLoweredDomain ==
    AtEnabledInclusion =>
        LET c == criteria_dsl.inclusion[idx]
        IN  FirstRuleWins(BuildCriterionSql(c, base_count),
                          Lower(Get(c, "domain", <<>>)), c, base_count)

\* a criterion that meets the age rule and the diagnosis rule is compiled by
\* the age rule, at a running count that differs from the base count
C22_Witness ==
    /\ wpc = "inclusion"
    /\ idx = 3
    /\ Len(criteria_dsl.inclusion) = 2
    /\ Get(criteria_dsl.inclusion[2], "concept", <<>>) = TextMetforminDosage
    /\ BuildCriterionSql(criteria_dsl.inclusion[2], base_count) = AgeSql
    /\ "I02" \in enabled_inclusion
    /\ Len(steps) = 2
    /\ steps[1].count # base_count

\* the lower-cased concept of the exclusion criterion the loop stands at
ExclusionConcept == Lower(Get(criteria_dsl.exclusion[idx], "concept", <<>>))

\* the exclusion criterion the loop stands at meets neither rule
FallsToDefault ==
    ~Contains(NeedleHeart, ExclusionConcept) /\ ~Contains(NeedleCancer, ExclusionConcept)

\* C23: exclusion compilation looks at the lower-cased concept only: "heart"
\* gives the I50% count, else "cancer" the C% count, else SELECT 0 as cnt; an
\* enabled exclusion criterion that falls to the default leaves the running
\* count as it was, and the step it emits has that count, drop_count 0 and
\* drop_pct 0
C23_ExclusionDispatch ==
    /\ [](AtEnabledExclusion =>
            LET q == BuildExclusionSql(criteria_dsl.exclusion[idx], current_count)
            IN  /\ q = HeartFailureSql <=> Contains(NeedleHeart, ExclusionConcept)
                /\ q = CancerSql <=>
                      (~Contains(NeedleHeart, ExclusionConcept)
                       /\ Contains(NeedleCancer, ExclusionConcept))
                /\ q = DefaultExclusionSql <=> FallsToDefault)
    /\ [][(AtEnabledExclusion /\ FallsToDefault) =>
            /\ current_count' = current_count
            /\ Len(steps') <= Len(steps) + 1
            /\ SubSeq(steps', 1, Len(steps)) = steps
            /\ ~QueryGaveNothing(query_result') => Len(steps') = Len(steps) + 1
            /\ Len(steps') = Len(steps) + 1 =>
                  /\ NewStep.type = "exclusion"
                  /\ NewStep.count = current_count
                  /\ NewStep.drop_count = 0
                  /\ NewStep.drop_pct.num = 0]_vars

\* the run has emitted the step of a default exclusion criterion after an
\* age step that changed the running count
C23_Witness ==
    /\ wpc = "done"
    /\ Len(criteria_dsl.exclusion) = 1
    /\ Get(criteria_dsl.exclusion[1], "concept", <<>>) = TextPregnancy
    /\ Len(steps) = 2
    /\ steps[1].count # base_count
    /\ steps[2].type = "exclusion"
    /\ steps[2].count = steps[1].count
    /\ whatif_result.final_count = steps[1].count

\* the list search_concepts returned, or the empty list before it returns
\* and when it raised
ReturnedMatches == IF search_result.tag = "result" THEN search_result.value ELSE <<>>

\* the score prescribed for a diagnosis reference row
DiagnosisScoreOk(m, t) ==
    m.match_score =
        IF t = Lower(m.description) THEN 10
        ELSE IF StartsWith(Lower(m.description), t) THEN 9
        ELSE 7

\* the score of a drug row when the term is in its name or its class
DrugScoreAsStated(m, t) ==
    LET name_match == In(t, Lower(m.drug_name))
        class_match == In(t, Lower(m.drug_class))
    IN  \/ name_match /\ class_match /\ m.match_score = 10
        \/ name_match /\ ~class_match /\ m.match_score = 9
        \/ ~name_match /\ class_match /\ m.match_score = 7

\* the score of a drug row, whether or not the term is in its name or class
DrugScoreOk(m, t) ==
    LET name_match == In(t, Lower(m.drug_name))
        class_match == In(t, Lower(m.drug_class))
    IN  m.match_score = IF name_match /\ class_match THEN 10
                        ELSE IF name_match THEN 9
                        ELSE 7

MatchingClaims ==
    {<<r.code, r.description>> :
        r \in {q \in store.refs : q.table = "claims" /\ LikeTerm(Lower(term), q.description)}}

\* C25: the claims block adds at most 10 matches, each of a code that no
\* match before it in the list has, reference match or supplemental; the
\* matches of the three reference vocabularies stay as the queries gave them,
\* one per row, also where two of them go by one code
C25_SupplementalBoundedAndDeduplicated ==
    /\ [](spc = "claims" =>
            Len(matches) = Len(fetched.icd) + Len(fetched.cpt) + Len(fetched.ndc))
    /\ [][(spc = "claims" /\ spc' = "sort") =>
            /\ SubSeq(matches', 1, Len(matches)) = matches
            /\ Len(matches') - Len(matches) <= SupplementalLimit
            /\ \A i \in (Len(matches) + 1)..Len(matches') :
                  /\ matches'[i].source = "claims_data"
                  /\ \E k \in 1..Len(fetched'.claims) :
                        fetched'.claims[k].code = matches'[i].code
                  /\ \A j \in 1..(i - 1) : matches'[j].code # matches'[i].code]_vars

\* more than 10 distinct diagnoses of the claims match and 10 were added,
\* behind a diagnosis match and a procedure match that go by one code
C25_Witness ==
    /\ spc = "sort"
    /\ Cardinality(MatchingClaims) > SupplementalLimit
    /\ Len(matches) = SupplementalLimit + 2
    /\ matches[1].code = matches[2].code
    /\ matches[1].code_system = "ICD10CM"
    /\ matches[2].code_system = "CPT"
    /\ \A i \in 3..Len(matches) : matches[i].source = "claims_data"

\* C26: a successful call has no warnings in mode count; in mode preview
\* one truncation warning exactly when the query produced more than 10 rows;
\* in mode full one large-result warning exactly when it produced more than
\* 1000 rows
C26_WarningsByMode ==
    (ExecutedOk /\ mode \in ValidModes) =>
        LET w == result.warnings
            n == Len(results)
        IN  /\ result.ok
            /\ mode = ModeCount => w = <<>>
            /\ mode = ModePreview =>
                  w = IF n > PreviewLimit
                      THEN <<ShowingPrefix \o IntToStr(n) \o RowsSuffix>>
                      ELSE <<>>
            /\ mode = ModeFull =>
                  w = IF n > LargeResult
                      THEN <<LargePrefix \o IntToStr(n) \o RowsReturnedSuffix>>
                      ELSE <<>>

\* a full call returned more than 1000 rows with its warning
C26_Witness ==
    /\ ExecutedOk
    /\ mode = ModeFull
    /\ Len(results) = LargeResult + 1
    /\ Len(result.preview_rows) = LargeResult + 1
    /\ Len(result.warnings) = 1

\* the criteria in processing order: the inclusion list, then the exclusion list
ProcessingOrder ==
    [i \in 1..Len(criteria_dsl.inclusion) |->
        [type |-> "inclusion", criterion |-> criteria_dsl.inclusion[i],
         enabled |-> enabled_inclusion]]
    \o [i \in 1..Len(criteria_dsl.exclusion) |->
        [type |-> "exclusion", criterion |-> criteria_dsl.exclusion[i],
         enabled |-> enabled_exclusion]]

\* step st is a step of the criterion at place p of the processing order
StepOf(st, p) ==
    /\ st.type = p.type
    /\ st.id = Get(p.criterion, "id", "unknown")
    /\ st.id \in p.enabled
    /\ st.name =
          (IF p.type = "exclusion" THEN ExcludePrefix ELSE <<>>)
          \o Get(p.criterion, "description", Get(p.criterion, "concept", NameUnknown))

\* C27: the steps are steps of distinct enabled criteria, in processing order
\* (inclusion criteria in document order, then exclusion criteria in document
\* order), each with an id of the enabled list of its kind; a step once
\* appended stays as it is, and the list returned is the list so built
C27_StepsInProcessingOrder ==
    /\ [](\E f \in [1..Len(steps) -> 1..Len(ProcessingOrder)] :
            /\ \A i, j \in 1..Len(steps) : i < j => f[i] < f[j]
            /\ \A i \in 1..Len(steps) : StepOf(steps[i], ProcessingOrder[f[i]]))
    /\ [](wpc = "done" => whatif_result.steps = steps)
    /\ [][/\ Len(steps) <= Len(steps')
          /\ Len(steps') <= Len(steps) + 1
          /\ SubSeq(steps', 1, Len(steps)) = steps]_vars

\* a run returned the step of an inclusion criterion followed by the step of
\* an exclusion criterion
C27_Witness ==
    /\ wpc = "done"
    /\ Len(whatif_result.steps) = 2
    /\ whatif_result.steps[1].type = "inclusion"
    /\ whatif_result.steps[2].type = "exclusion"
    /\ whatif_result.steps[1].id \in enabled_inclusion
    /\ whatif_result.steps[2].id \in enabled_exclusion

\* C28: for every step, count + drop_count is the running count before it
\* (base_count before the first step, the count of the step before
\* otherwise); the final_count returned is the count of the last step, or
\* base_count when there is no step
C28_Conservation ==
    /\ \A i \in 1..Len(steps) : steps[i].count + steps[i].drop_count = CountBefore(i)
    /\ wpc # "idle" =>
          current_count = IF steps = <<>> THEN base_count ELSE steps[Len(steps)].count
    /\ wpc = "done" =>
          /\ whatif_result.base_count = base_count
          /\ whatif_result.steps = steps
          /\ whatif_result.final_count =
                IF steps = <<>> THEN base_count ELSE steps[Len(steps)].count

\* a run returned after an inclusion step and an exclusion step that both
\* dropped patients
C28_Witness ==
    /\ wpc = "done"
    /\ Len(whatif_result.steps) = 2
    /\ whatif_result.steps[1].drop_count > 0
    /\ whatif_result.steps[2].drop_count > 0
    /\ whatif_result.steps[2].type = "exclusion"
    /\ whatif_result.final_count = whatif_result.steps[2].count

NextAssistant(p) ==
    IF \E q \in (p + 1)..Len(conversation) : conversation[q].role = "assistant"
    THEN CHOOSE q \in (p + 1)..Len(conversation) :
            /\ conversation[q].role = "assistant"
            /\ \A r \in (p + 1)..(q - 1) : conversation[r].role # "assistant"
    ELSE Len(conversation) + 1

\* the ids of the tool messages between the assistant message at place p and
\* the next one
ToolIdsBehind(p) ==
    LET IsTool(m) == m.role = "tool"
        found == SelectSeq(SubSeq(conversation, p + 1, NextAssistant(p) - 1), IsTool)
    IN  [i \in 1..Len(found) |-> found[i].tool_call_id]

\* the ids of the calls of the assistant message at place p whose turn in the
\* loop has come
CallIdsDue(p) ==
    LET calls == conversation[p].tool_calls
        due == IF apc = "tools" /\ NextAssistant(p) > Len(conversation)
               THEN call_idx - 1 ELSE Len(calls)
    IN  [i \in 1..due |-> calls[i].id]

====
